---- MODULE Spec2Model ----
(***************************************************************************)
(* Packet reassembly and telemetry decoding of the Power Watchdog BLE      *)
(* integration (custom_components/hughes_power_watchdog).                  *)
(*                                                                         *)
(* A byte is an integer 0..255 and a buffer a sequence of bytes; offsets   *)
(* are the 0-based offsets of the Python source.  Decoded physical values  *)
(* are kept as integers in units of their rounding step (voltage 121.5 V   *)
(* is 1215 tenths of a volt).                                              *)
(***************************************************************************)
EXTENDS Integers, Sequences, FiniteSets, TLC

\* ---------------------------------------------------------------- const.py
PACKET_IDENTIFIER == 611940160
PACKET_TAIL == 28961
HEADER_SIZE == 9
TAIL_SIZE == 2
MAX_BUFFER_SIZE == 8192
CMD_DL_REPORT == 1
CMD_ERROR_REPORT == 2
CMD_ALARM == 14
DL_DATA_SIZE == 34
\* bytes.fromhex(CMD_RESET_ENERGY), "2479774001060300007121"
CMD_RESET_ENERGY == << 36, 121, 119, 64, 1, 6, 3, 0, 0, 113, 33 >>
CHARACTERISTIC_UUID == "0000ff01-0000-1000-8000-00805f9b34fb"
\* bytes.fromhex("212521252c70726f746f636f6c2c6f70656e2c")
HANDSHAKE_PAYLOAD ==
    << 33, 37, 33, 37, 44, 112, 114, 111, 116, 111, 99, 111, 108, 44, 111, 112, 101, 110, 44 >>

\* ------------------------------------------------------------------ bounds
\* a stream is the concatenation of at most MaxPieces transmissions
MaxPieces == 2
\* a notification may end at most MaxSplit bytes away from a transmission boundary
MaxSplit == 4
\* entities that register for state updates
MaxSensors == 2
\* presses of the reset button
MaxPresses == 3
\* writes made on the client, the handshakes of the connections among them
MaxWrites == 4
\* advertisements the config flow looks through
MaxDevices == 2
\* turns of connect_loop's while True
MaxAttempts == 3

\* ------------------------------------------------- struct.unpack_from / pack

\* buf[o], o a 0-based offset
At(buf, o) == buf[o + 1]

\* buf[a:b], 0-based half-open slice
Slice(buf, a, b) == SubSeq(buf, a + 1, b)

\* del buf[:n]
DelFront(buf, n) == SubSeq(buf, n + 1, Len(buf))

\* struct.unpack_from(">H", buf, o)[0]
U16BE(buf, o) == At(buf, o) * 256 + At(buf, o + 1)

\* FAULT: struct.unpack_from("<i", body, o)[0], the bytes read in little-endian order
I32BELittleEndian(body, o) ==
    LET b3 == At(body, o + 3)
        hi == IF b3 >= 128 THEN b3 - 256 ELSE b3
    IN  hi * 16777216 + At(body, o + 2) * 65536 + At(body, o + 1) * 256 + At(body, o)

\* struct.unpack_from(">i", body, o)[0]: two's complement, big-endian
I32BE(body, o) ==
    LET b0 == At(body, o)
        hi == IF b0 >= 128 THEN b0 - 256 ELSE b0
    IN  hi * 16777216 + At(body, o + 1) * 65536 + At(body, o + 2) * 256 + At(body, o + 3)

\* struct.pack(">H", v)
PackU16(v) == << (v \div 256) % 256, v % 256 >>

\* struct.pack(">i", v)
PackI32(v) == << (v \div 16777216) % 256, (v \div 65536) % 256, (v \div 256) % 256, v % 256 >>

\* struct.pack(">I", PACKET_IDENTIFIER)
IdentBytes == PackU16(PACKET_IDENTIFIER \div 65536) \o PackU16(PACKET_IDENTIFIER % 65536)

\* buf[o], buf[o + 1], ... n bytes in all, are there: indexing and
\* struct.unpack_from raise (IndexError, struct.error) when they are not
ReadOk(buf, o, n) == o + n <= Len(buf)

\* bytes(n): n zero bytes
Zeros(n) == [i \in 1..n |-> 0]

\* ------------------------------------------------------- models.py: data model
\* an optional value: None is the empty tuple, a value v the 1-tuple <<v>>
None == << >>
Some(v) == << v >>

\* LineData(): every field None
LineData ==
    [voltage |-> None, current |-> None, power |-> None, energy |-> None,
     output_voltage |-> None, frequency |-> None, error_code |-> None,
     status |-> None, boost |-> None]

\* WatchdogData(): l1 and l2 default LineData, has_l2 False
WatchdogData == [l1 |-> LineData, l2 |-> LineData, has_l2 |-> FALSE]

\* FAULT: the quotient cut off below instead of rounded to the nearest
RoundDivFloor(n, d) == n \div d

\* round(n / d, k) as an integer count of rounding steps: the nearest integer to
\* n / d.  At an exact decimal tie Python rounds the binary double nearest the
\* quotient, which lies on either side of the tie; the half-even result stands for
\* it here, and no record of the library below decodes at a tie.
RoundDiv(n, d) ==
    LET q == n \div d
        r == n % d
    IN  IF 2 * r < d THEN q
        ELSE IF 2 * r > d THEN q + 1
        ELSE IF q % 2 = 0 THEN q ELSE q + 1

\* FAULT: boost read from the backlight byte at o + 24
ParseDlDataBoostAt24(body, o) ==
    [voltage        |-> Some(RoundDiv(I32BE(body, o), 1000)),
     current        |-> Some(RoundDiv(I32BE(body, o + 4), 100)),
     power          |-> Some(RoundDiv(I32BE(body, o + 8), 1000)),
     energy         |-> Some(RoundDiv(I32BE(body, o + 12), 100)),
     output_voltage |-> Some(RoundDiv(I32BE(body, o + 20), 1000)),
     frequency      |-> Some(RoundDiv(I32BE(body, o + 28), 10)),
     error_code     |-> Some(At(body, o + 32)),
     status         |-> Some(At(body, o + 33)),
     boost          |-> Some(At(body, o + 24) = 1)]

\* _parse_dl_data(body, offset): one 34-byte DLData block
ParseDlData(body, o) ==
    [voltage        |-> Some(RoundDiv(I32BE(body, o), 1000)),
     current        |-> Some(RoundDiv(I32BE(body, o + 4), 100)),
     power          |-> Some(RoundDiv(I32BE(body, o + 8), 1000)),
     energy         |-> Some(RoundDiv(I32BE(body, o + 12), 100)),
     output_voltage |-> Some(RoundDiv(I32BE(body, o + 20), 1000)),
     frequency      |-> Some(RoundDiv(I32BE(body, o + 28), 10)),
     error_code     |-> Some(At(body, o + 32)),
     status         |-> Some(At(body, o + 33)),
     boost          |-> Some(At(body, o + 26) = 1)]

\* ------------------------------------------- models.py: PowerWatchdogManager
\* The manager's fields touched by a notification, as one record:
\*   buf     _rx_buffer
\*   data    the WatchdogData snapshot
\*   writes  the async_write_ha_state calls made so far, by sensor, in call order
\*   packets the packets that passed the tail check, <<cmd, body>>, in order
\*   seen    the snapshot as it stood each time the sensors were written, which is
\*           what a sensor reads in its callback
\*   left    _rx_buffer as it stood each time the sensors were written during the
\*           notification at hand
\*   raised  whether a read went beyond the bytes present, which raises out of
\*           _notification_handler

\* an exception raised by a read: the handler is left with the state as it stands
Fault(st) == [st EXCEPT !.raised = TRUE]

\* _parse_dl_data(body, o) reads body[o] to body[o + 33]
DlDataReadable(body, o) == ReadOk(body, o, DL_DATA_SIZE)

\* FAULT: for sensor in reversed(self.sensors)
PushUpdateReversed(st, sensors) ==
    [st EXCEPT !.writes = @ \o [i \in 1..Len(sensors) |-> sensors[Len(sensors) + 1 - i]],
               !.seen = Append(@, st.data), !.left = Append(@, st.buf)]

\* for sensor in self.sensors: sensor.async_write_ha_state()
PushUpdate(st, sensors) ==
    [st EXCEPT !.writes = @ \o sensors, !.seen = Append(@, st.data),
               !.left = Append(@, st.buf)]

\* FAULT: _parse_dl_report whose 34-byte branch leaves has_l2 as it was
ParseDlReportKeepsL2(st, body, sensors) ==
    IF Len(body) = DL_DATA_SIZE
    THEN PushUpdate([st EXCEPT !.data.l1 = ParseDlData(body, 0)], sensors)
    ELSE IF Len(body) = DL_DATA_SIZE * 2
    THEN PushUpdate([st EXCEPT !.data.l1 = ParseDlData(body, 0),
                               !.data.l2 = ParseDlData(body, DL_DATA_SIZE),
                               !.data.has_l2 = TRUE], sensors)
    ELSE st

\* FAULT: a 68-byte branch that writes the sensors before line 2 is assigned
ParseDlReportTorn(st, body, sensors) ==
    IF Len(body) = DL_DATA_SIZE
    THEN PushUpdate([st EXCEPT !.data.l1 = ParseDlData(body, 0),
                               !.data.has_l2 = FALSE], sensors)
    ELSE IF Len(body) = DL_DATA_SIZE * 2
    THEN [PushUpdate([st EXCEPT !.data.l1 = ParseDlData(body, 0),
                                !.data.has_l2 = TRUE], sensors)
              EXCEPT !.data.l2 = ParseDlData(body, DL_DATA_SIZE)]
    ELSE st

\* FAULT: a length test that accepts any body of at least one record
ParseDlReportAnyLength(st, body, sensors) ==
    IF Len(body) >= DL_DATA_SIZE /\ Len(body) < DL_DATA_SIZE * 2
    THEN PushUpdate([st EXCEPT !.data.l1 = ParseDlData(body, 0),
                               !.data.has_l2 = FALSE], sensors)
    ELSE IF Len(body) >= DL_DATA_SIZE * 2
    THEN PushUpdate([st EXCEPT !.data.l1 = ParseDlData(body, 0),
                               !.data.l2 = ParseDlData(body, DL_DATA_SIZE),
                               !.data.has_l2 = TRUE], sensors)
    ELSE st

\* FAULT: a 34-byte branch that also resets line 2
ParseDlReportClearsL2(st, body, sensors) ==
    IF Len(body) = DL_DATA_SIZE
    THEN PushUpdate([st EXCEPT !.data.l1 = ParseDlData(body, 0),
                               !.data.l2 = LineData,
                               !.data.has_l2 = FALSE], sensors)
    ELSE IF Len(body) = DL_DATA_SIZE * 2
    THEN PushUpdate([st EXCEPT !.data.l1 = ParseDlData(body, 0),
                               !.data.l2 = ParseDlData(body, DL_DATA_SIZE),
                               !.data.has_l2 = TRUE], sensors)
    ELSE st

\* _parse_dl_report(body)
ParseDlReport(st, body, sensors) ==
    IF Len(body) = DL_DATA_SIZE
    THEN IF ~DlDataReadable(body, 0) THEN Fault(st)
         ELSE PushUpdate([st EXCEPT !.data.l1 = ParseDlData(body, 0),
                                    !.data.has_l2 = FALSE], sensors)
    ELSE IF Len(body) = DL_DATA_SIZE * 2
    THEN IF ~(DlDataReadable(body, 0) /\ DlDataReadable(body, DL_DATA_SIZE)) THEN Fault(st)
         ELSE PushUpdate([st EXCEPT !.data.l1 = ParseDlData(body, 0),
                                    !.data.l2 = ParseDlData(body, DL_DATA_SIZE),
                                    !.data.has_l2 = TRUE], sensors)
    ELSE st

\* FAULT: a dispatch that hands every command it does not know to the decoder
DispatchUnknownAsReport(st, cmd, body, sensors) ==
    LET logged == [st EXCEPT !.packets = Append(@, << cmd, body >>)]
    IN  IF cmd \notin { CMD_ERROR_REPORT, CMD_ALARM } THEN ParseDlReport(logged, body, sensors)
        ELSE logged

\* the dispatch at the end of _try_parse_packet: only cmd 1 reaches the decoder,
\* the other branches log
Dispatch(st, cmd, body, sensors) ==
    LET logged == [st EXCEPT !.packets = Append(@, << cmd, body >>)]
    IN  IF cmd = CMD_DL_REPORT THEN ParseDlReport(logged, body, sensors)
        ELSE logged

\* struct.unpack_from(">I", buf, 0)[0] == PACKET_IDENTIFIER once i bytes are deleted,
\* compared as two 16-bit halves (an unsigned 32-bit value read from the buffer can
\* exceed TLC's integers)
IdentifierAt(buf, i) ==
    /\ U16BE(buf, i) = PACKET_IDENTIFIER \div 65536
    /\ U16BE(buf, i + 2) = PACKET_IDENTIFIER % 65536

\* FAULT: a scan that also deletes the last bytes when fewer than 4 are left
ScanStepDropsShort(buf, i) ==
    IF Len(buf) - i >= 4
    THEN (IF IdentifierAt(buf, i) THEN i ELSE i + 1)
    ELSE IF Len(buf) - i > 0 THEN i + 1 ELSE i

\* FAULT: a scan that deletes two bytes per turn
ScanStepByTwo(buf, i) ==
    IF Len(buf) - i >= 4 /\ ~IdentifierAt(buf, i) THEN i + 2 ELSE i

\* FAULT: while len(buf) > 4, the scan given up with four bytes left
ScanStepStopsAtFour(buf, i) ==
    IF Len(buf) - i > 4 /\ ~IdentifierAt(buf, i) THEN i + 1 ELSE i

\* one turn of the identifier scan, i the number of bytes deleted so far:
\* while len(buf) >= 4, stop at the identifier, else del buf[0]
ScanStep(buf, i) ==
    IF Len(buf) - i >= 4 /\ ~IdentifierAt(buf, i) THEN i + 1 ELSE i

\* k turns of the scan loop, halving k so that the evaluation stays shallow
RECURSIVE ScanSteps(_, _, _)
ScanSteps(buf, i, k) ==
    IF k <= 1 \/ ScanStep(buf, i) = i THEN ScanStep(buf, i)
    ELSE ScanSteps(buf, ScanSteps(buf, i, k \div 2), k - (k \div 2))

\* the scan loop run to its exit: it deletes at most len(buf) bytes
ScanIdentifier(buf) == DelFront(buf, ScanSteps(buf, 0, Len(buf)))

\* FAULT: a dataLen refused as soon as the frame would fill the buffer
InvalidDataLenAtFrameLimit(data_len) ==
    data_len >= MAX_BUFFER_SIZE - HEADER_SIZE - TAIL_SIZE

\* data_len > MAX_BUFFER_SIZE
InvalidDataLen(data_len) == data_len > MAX_BUFFER_SIZE

\* FAULT: the identifier blanked in place on an invalid dataLen, nothing deleted
BlankIdentifier(buf) == Zeros(4) \o DelFront(buf, 4)

\* FAULT: the whole header deleted on an invalid dataLen
SkipHeader(buf) == DelFront(buf, HEADER_SIZE)

\* del buf[:4] on an invalid dataLen
SkipIdentifier(buf) == DelFront(buf, 4)

\* FAULT: a total length that leaves the tail out
TotalLenNoTail(data_len) == HEADER_SIZE + data_len

\* total_len = HEADER_SIZE + data_len + TAIL_SIZE
TotalLen(data_len) == HEADER_SIZE + data_len + TAIL_SIZE

\* FAULT: return False with the partial frame thrown away
DropPartial(st) == [consumed |-> FALSE, st |-> [st EXCEPT !.buf = << >>]]

\* return False: more data is needed, what is buffered stays
WaitForMore(st) == [consumed |-> FALSE, st |-> st]

\* a read of the buffer raises: no value is returned and the caller's loop is left
Raise(st) == [consumed |-> FALSE, st |-> Fault(st)]

\* FAULT: no tail check
BadTailIgnored(tail) == FALSE

\* tail != PACKET_TAIL
BadTail(tail) == tail # PACKET_TAIL

\* FAULT: return False on a bad tail, which ends the caller's loop
DiscardAndStop(st) == [consumed |-> FALSE, st |-> st]

\* return True on a bad tail: the frame is gone from the buffer, nothing else changed
DiscardPacket(st) == [consumed |-> TRUE, st |-> st]

\* _try_parse_packet() once the body and the tail are read: the frame is already
\* deleted from st.buf; a bad tail discards it, a good one dispatches the packet
CheckTail(st, cmd, body, tail, sensors) ==
    IF BadTail(tail)
    THEN DiscardPacket(st)
    ELSE [consumed |-> TRUE, st |-> Dispatch(st, cmd, body, sensors)]

\* FAULT: return False after skipping the identifier of a header with an invalid dataLen
ParseFrameSkipReturnsFalse(st, cmd, data_len, sensors) ==
    IF InvalidDataLen(data_len)
    THEN [consumed |-> FALSE, st |-> [st EXCEPT !.buf = SkipIdentifier(@)]]
    ELSE IF Len(st.buf) < TotalLen(data_len)
    THEN WaitForMore(st)
    ELSE IF ~ReadOk(st.buf, HEADER_SIZE + data_len, TAIL_SIZE)
    THEN Raise(st)
    ELSE CheckTail([st EXCEPT !.buf = DelFront(@, TotalLen(data_len))],
                   cmd,
                   Slice(st.buf, HEADER_SIZE, HEADER_SIZE + data_len),
                   U16BE(st.buf, HEADER_SIZE + data_len),
                   sensors)

\* FAULT: the packet dispatched while its bytes are still in the buffer, and the
\* frame deleted afterwards
ParseFrameDispatchFirst(st, cmd, data_len, sensors) ==
    IF InvalidDataLen(data_len)
    THEN [consumed |-> TRUE, st |-> [st EXCEPT !.buf = SkipIdentifier(@)]]
    ELSE IF Len(st.buf) < TotalLen(data_len)
    THEN WaitForMore(st)
    ELSE [CheckTail(st,
                    cmd,
                    Slice(st.buf, HEADER_SIZE, HEADER_SIZE + data_len),
                    U16BE(st.buf, HEADER_SIZE + data_len),
                    sensors)
              EXCEPT !.st.buf = DelFront(@, TotalLen(data_len))]

\* FAULT: a frame taken to end at the first tail constant behind the header
ParseFrameToTail(st, cmd, data_len, sensors) ==
    IF InvalidDataLen(data_len)
    THEN [consumed |-> TRUE, st |-> [st EXCEPT !.buf = SkipIdentifier(@)]]
    ELSE IF Len(st.buf) < TotalLen(data_len)
    THEN WaitForMore(st)
    ELSE LET ends == { j \in HEADER_SIZE..(HEADER_SIZE + data_len) :
                           U16BE(st.buf, j) = PACKET_TAIL }
                     \cup { HEADER_SIZE + data_len }
             e == CHOOSE j \in ends : \A k \in ends : j <= k
         IN  CheckTail([st EXCEPT !.buf = DelFront(@, e + TAIL_SIZE)],
                       cmd,
                       Slice(st.buf, HEADER_SIZE, e),
                       U16BE(st.buf, e),
                       sensors)

\* _try_parse_packet() once cmd and data_len are read from the header
ParseFrame(st, cmd, data_len, sensors) ==
    IF InvalidDataLen(data_len)
    THEN [consumed |-> TRUE, st |-> [st EXCEPT !.buf = SkipIdentifier(@)]]
    ELSE IF Len(st.buf) < TotalLen(data_len)
    THEN WaitForMore(st)
    ELSE IF ~ReadOk(st.buf, HEADER_SIZE + data_len, TAIL_SIZE)
    THEN Raise(st)
    ELSE CheckTail([st EXCEPT !.buf = DelFront(@, TotalLen(data_len))],
                   cmd,
                   Slice(st.buf, HEADER_SIZE, HEADER_SIZE + data_len),
                   U16BE(st.buf, HEADER_SIZE + data_len),
                   sensors)

\* FAULT: cmd = buf[5], the message id read as the command
ParseHeaderCmdAt5(st, sensors) ==
    IF Len(st.buf) < HEADER_SIZE
    THEN WaitForMore(st)
    ELSE IF ~(ReadOk(st.buf, 5, 1) /\ ReadOk(st.buf, 7, 2))
    THEN Raise(st)
    ELSE ParseFrame(st, At(st.buf, 5), U16BE(st.buf, 7), sensors)

\* FAULT: if len(buf) < 4, the length of the identifier for that of the header
ParseHeaderEarly(st, sensors) ==
    IF Len(st.buf) < 4
    THEN WaitForMore(st)
    ELSE IF ~(ReadOk(st.buf, 6, 1) /\ ReadOk(st.buf, 7, 2))
    THEN Raise(st)
    ELSE ParseFrame(st, At(st.buf, 6), U16BE(st.buf, 7), sensors)

\* _try_parse_packet() once the scan has stopped: the header is awaited, then
\* buf[6] and the length at offset 7 are read
ParseHeader(st, sensors) ==
    IF Len(st.buf) < HEADER_SIZE
    THEN WaitForMore(st)
    ELSE IF ~(ReadOk(st.buf, 6, 1) /\ ReadOk(st.buf, 7, 2))
    THEN Raise(st)
    ELSE ParseFrame(st, At(st.buf, 6), U16BE(st.buf, 7), sensors)

\* _try_parse_packet(): [consumed, st], consumed the returned bool
TryParsePacket(st, sensors) ==
    ParseHeader([st EXCEPT !.buf = ScanIdentifier(@)], sensors)

\* FAULT: if self._try_parse_packet(): pass
ParseOnce(st, sensors) == TryParsePacket(st, sensors).st

\* while self._try_parse_packet(): pass
RECURSIVE ParseLoop(_, _)
RECURSIVE LoopOn(_, _)
ParseLoop(st, sensors) == LoopOn(TryParsePacket(st, sensors), sensors)

\* FAULT: the loop left after the first call, whatever it returned
LoopOnStops(r, sensors) == r.st

\* the loop's test of the value _try_parse_packet() returned
LoopOn(r, sensors) ==
    IF r.consumed /\ ~r.st.raised THEN ParseLoop(r.st, sensors) ELSE r.st

\* FAULT: a guard that leaves room for one more header and tail
OverflowBeyondFrame(buf) == Len(buf) > MAX_BUFFER_SIZE + HEADER_SIZE + TAIL_SIZE

\* FAULT: len(self._rx_buffer) >= MAX_BUFFER_SIZE
OverflowAtLimit(buf) == Len(buf) >= MAX_BUFFER_SIZE

\* len(self._rx_buffer) > MAX_BUFFER_SIZE
Overflow(buf) == Len(buf) > MAX_BUFFER_SIZE

\* _notification_handler once raw is appended: the guard, then the loop
GuardedLoop(st, sensors) ==
    IF Overflow(st.buf) THEN [st EXCEPT !.buf = << >>] ELSE ParseLoop(st, sensors)

\* FAULT: self._rx_buffer = raw, the bytes buffered so far replaced by the chunk
NotificationHandlerReplaces(st, raw, sensors) ==
    GuardedLoop([st EXCEPT !.buf = raw], sensors)

\* _notification_handler(_sender, raw)
NotificationHandler(st, raw, sensors) ==
    GuardedLoop([st EXCEPT !.buf = @ \o raw], sensors)

\* ------------------------------------------------------- tests/helpers.py
\* build_dl_data with the raw (already scaled) integers of each field
BuildDlData(voltage, current, power, energy, output_voltage, frequency, error, status, boost) ==
    PackI32(voltage) \o PackI32(current) \o PackI32(power) \o PackI32(energy)
    \o PackI32(0) \o PackI32(output_voltage)
    \o << 5, 0, IF boost THEN 1 ELSE 0, 25 >>
    \o PackI32(frequency) \o << error, status >>

\* build_packet(cmd, body): version 1, msgId 0
BuildPacket(cmd, body) ==
    IdentBytes \o << 1, 0, cmd >> \o PackU16(Len(body)) \o body \o PackU16(PACKET_TAIL)

\* a frame header alone, claiming data_len body bytes
BuildHeader(cmd, data_len) == IdentBytes \o << 1, 0, cmd >> \o PackU16(data_len)

\* ------------------------------------------------------------ transmissions
\* RecA is build_dl_data() with its defaults (int(2.03 * 10_000) is 20299), RecE the
\* same at 999.0 V; RecC and RecD are the two lines of a 50 A unit
RecA == BuildDlData(1215000, 20299, 2030000, 26450500, 1220000, 6000, 0, 1, FALSE)
RecC == BuildDlData(1190000, -15000, -5000000, 210000000, 1205000, 5000, 3, 2, TRUE)
RecD == BuildDlData(1227000, 3600, 70000, 5002500, 1228000, 6000, 5, 1, TRUE)
RecE == BuildDlData(9990000, 20299, 2030000, 26450500, 1220000, 6000, 0, 1, FALSE)

\* the transmissions a stream is made of:
\*   T34a  a telemetry report of one record        T68  one of two records
\*   Er    an error report whose body holds the identifier and the tail constant
\*   Al    an alarm, with an empty body
\*   Bt    a one-record telemetry report with its tail overwritten by FF FF
\*   Ov    a header cut short after the high byte, 0x20, of its length: with any
\*         byte but 0 after it the length read exceeds MAX_BUFFER_SIZE
\*   Gb    garbage that ends in a prefix of the identifier
\*   Gh    garbage that holds the identifier: a header claiming 5 body bytes
\*   Junk  zero bytes, so many that a one-record report no longer fits behind them
\*   Tm    a telemetry report with a body of 50 zero bytes
\*   Un    a frame of the unknown command 99 whose body is a telemetry record
\*   Rs    the reset command the integration writes to the device
\*   Big   a header claiming MAX_BUFFER_SIZE body bytes and the first of them,
\*         MAX_BUFFER_SIZE bytes in all
\*   Fit   the longest frame the buffer can hold, MAX_BUFFER_SIZE bytes with its
\*         header and tail; Wide the frame one byte longer
Library ==
    [T34a |-> BuildPacket(CMD_DL_REPORT, RecA),
     T68  |-> BuildPacket(CMD_DL_REPORT, RecC \o RecD),
     Er   |-> BuildPacket(CMD_ERROR_REPORT, IdentBytes \o PackU16(PACKET_TAIL)),
     Al   |-> BuildPacket(CMD_ALARM, << >>),
     Bt   |-> BuildHeader(CMD_DL_REPORT, DL_DATA_SIZE) \o RecE \o << 255, 255 >>,
     Ov   |-> SubSeq(BuildHeader(CMD_DL_REPORT, MAX_BUFFER_SIZE), 1, HEADER_SIZE - 1),
     Gb   |-> << 222, 173, 36, 121, 119 >>,
     Gh   |-> BuildHeader(CMD_ERROR_REPORT, 5),
     Junk |-> Zeros(MAX_BUFFER_SIZE - DL_DATA_SIZE),
     Tm   |-> BuildPacket(CMD_DL_REPORT, Zeros(50)),
     Un   |-> BuildPacket(99, RecE),
     Rs   |-> CMD_RESET_ENERGY,
     Big  |-> BuildHeader(CMD_ERROR_REPORT, MAX_BUFFER_SIZE)
              \o Zeros(MAX_BUFFER_SIZE - HEADER_SIZE),
     Fit  |-> BuildPacket(CMD_ERROR_REPORT, Zeros(MAX_BUFFER_SIZE - HEADER_SIZE - TAIL_SIZE)),
     Wide |-> BuildPacket(CMD_ERROR_REPORT, Zeros(MAX_BUFFER_SIZE - HEADER_SIZE - TAIL_SIZE + 1))]

\* the transmissions that are combined freely
PieceNames == { "T34a", "T68", "Er", "Bt", "Ov", "Gh" }

\* the runs: at most MaxPieces of the transmissions combined freely, the runs that
\* fill the buffer, and the runs with a malformed report, an unknown command, the
\* reset command, an alarm and garbage without the identifier
PieceSeqs ==
    UNION { [1..n -> PieceNames] : n \in 0..MaxPieces }
    \cup { << "Big" >>, << "Big", "T34a" >>, << "T34a", "Big" >>, << "Big", "Al", "T68" >> }
    \cup { << "T34a", "Er", "T68" >>, << "Junk", "T34a" >> }
    \cup { << "T68", "Tm" >>, << "Tm", "T34a" >>, << "T34a", "Un" >>, << "Un", "T68" >>,
           << "Rs" >>, << "T68", "Rs" >>, << "Rs", "T34a" >> }
    \cup { << "Al" >>, << "Gb" >>, << "Gb", "T68" >>, << "Gb", "T34a" >>, << "T34a", "Al" >>,
           << "Al", "T68" >>, << "Bt", "Al" >>, << "Gb", "Al" >>, << "Gb", "Gb", "Er" >> }

\* the bytes of a sequence of transmissions
RECURSIVE Flatten(_)
Flatten(ps) == IF ps = << >> THEN << >> ELSE Library[Head(ps)] \o Flatten(Tail(ps))

\* their number
RECURSIVE StreamLen(_)
StreamLen(ps) == IF ps = << >> THEN 0 ELSE Len(Library[Head(ps)]) + StreamLen(Tail(ps))

\* the offsets at which a transmission of ps starts or ends
Boundaries(ps) == { StreamLen(SubSeq(ps, 1, n)) : n \in 0..Len(ps) }

\* where a notification may end: within MaxSplit bytes of a boundary
CutPoints(ps) ==
    UNION { (b - MaxSplit)..(b + MaxSplit) : b \in Boundaries(ps) } \cap 0..StreamLen(ps)

\* ------------------------------------------- records for _parse_dl_data alone
\* int(x * scale) in build_dl_data, for the reading x that is X / scale: the
\* product is the double nearest X give or take a rounding error, and int()
\* truncates toward zero, so the result is X or the integer next to it toward
\* zero (int(2.03 * 10_000) is 20299)
Scaled(X) == IF X > 0 THEN { X, X - 1 } ELSE IF X < 0 THEN { X, X + 1 } ELSE { 0 }

\* readings as build_dl_data takes them, each as the integer X of x = X / scale
\* (scale 10 000, and 100 for the frequency)
Reading(v, c, p, e, o, f) ==
    [voltage |-> v, current |-> c, power |-> p, energy |-> e, output_voltage |-> o,
     frequency |-> f]

\* the readings of the tests (the defaults, test_all_fields_together, the signed
\* values, the second line of a 50 A unit), all zero, and readings finer than the
\* precision the sensors show
PhysicalSamples ==
    { Reading(1215000, 20300, 2030000, 26450500, 1220000, 6000),
      Reading(1201000, 155000, 18600000, 1000000, 1210000, 5000),
      Reading(2483000, -15000, -5000000, 210000000, 1205000, 5000),
      Reading(1227000, 3600, 70000, 5002500, 1228000, 6000),
      Reading(0, 0, 0, 0, 0, 0),
      Reading(1215432, 20351, 2030049, 26450549, -1220951, 5999),
      Reading(-1, -49, 51, 50, 999, 5) }

\* build_dl_data(voltage, current, ...) for the readings r, boost off, error 0, status 1
RecordsOf(r) ==
    { BuildDlData(v, c, p, e, o, f, 0, 1, FALSE) :
        v \in Scaled(r.voltage), c \in Scaled(r.current), p \in Scaled(r.power),
        e \in Scaled(r.energy), o \in Scaled(r.output_voltage), f \in Scaled(r.frequency) }

\* four-byte words: zero, -1, the least and the greatest int32 and their
\* neighbours, and two values in between
Words ==
    << << 0, 0, 0, 0 >>, << 255, 255, 255, 255 >>, << 128, 0, 0, 0 >>,
       << 127, 255, 255, 255 >>, << 0, 18, 214, 135 >>, << 255, 254, 121, 96 >>,
       << 128, 0, 0, 1 >> >>
Word(i) == Words[(i % Len(Words)) + 1]

\* a record of arbitrary bytes: the seven words in turn from the w-th on, byte b
\* as the boost flag between three other flag bytes, e and s as its last two bytes
RawRecord(w, b, e, s) ==
    Word(w) \o Word(w + 1) \o Word(w + 2) \o Word(w + 3) \o Word(w + 4) \o Word(w + 5)
    \o << s, 1, b, e >> \o Word(w + 6) \o << e, s >>

\* the records handed to _parse_dl_data as they are
RecordSamples ==
    { RawRecord(w, b, e, s) :
        w \in 0..(Len(Words) - 1), b \in { 0, 1, 2, 128, 255 }, e \in { 0, 9, 10, 255 },
        s \in { 0, 7, 255 } }

\* ------------------------------------------- config_flow.py: device discovery
\* a name is the sequence of its characters
GEN2_PREFIX == << "W", "D", "_" >>
GEN1_PREFIX == << "P", "M" >>
DEVICE_NAME_PREFIXES == << GEN2_PREFIX, GEN1_PREFIX >>

\* FAULT: p in name, the prefix found anywhere in the name
StartsWithAnywhere(name, p) ==
    \E k \in 1..Len(name) : k + Len(p) - 1 <= Len(name) /\ SubSeq(name, k, k + Len(p) - 1) = p

\* name.startswith(p)
StartsWith(name, p) == Len(name) >= Len(p) /\ SubSeq(name, 1, Len(p)) = p

\* name and any(name.startswith(p) for p in DEVICE_NAME_PREFIXES)
Matches(name) ==
    /\ name # << >>
    /\ \E i \in 1..Len(DEVICE_NAME_PREFIXES) : StartsWith(name, DEVICE_NAME_PREFIXES[i])

\* the addresses among the entries of discovered_devices
Listed(found) == { found[i].value : i \in 1..Len(found) }

\* the loop over async_discovered_service_info: found is discovered_devices so
\* far, as its entries in insertion order; the label is f"{name} ({address})"
RECURSIVE Discover(_, _, _)
Discover(infos, current, found) ==
    IF infos = << >> THEN found
    ELSE LET info == Head(infos)
         IN  IF info.address \in current \/ info.address \in Listed(found)
             THEN Discover(Tail(infos), current, found)
             ELSE IF Matches(info.name)
             THEN Discover(Tail(infos), current,
                           Append(found, [value |-> info.address,
                                          label |-> << info.name, info.address >>]))
             ELSE Discover(Tail(infos), current, found)

\* async_step_user(None): abort when nothing was found, else the form with the
\* devices found as the options of its selector
StepUser(infos, current) ==
    LET discovered_devices == Discover(infos, current, << >>)
    IN  IF discovered_devices = << >>
        THEN [type |-> "abort", reason |-> "no_devices_found", options |-> << >>]
        ELSE [type |-> "form", reason |-> "user", options |-> discovered_devices]

\* advertised names: Gen 2 and Gen 1 names, the prefixes alone, and names that
\* are none of theirs (empty, lower case, no underscore, the prefix further in)
NameSamples ==
    { << >>, << "W", "D", "_", "E", "7" >>, << "P", "M", "S", "1" >>, << "W", "D", "_" >>,
      << "w", "d", "_", "E", "7" >>, << "W", "D" >>, << "X", "P", "M" >>, << "p", "m", "D" >> }

\* the addresses of the devices around
AddressSamples == { "AA:01", "AA:02" }

\* what async_discovered_service_info returns: at most MaxDevices advertisements
ServiceInfos ==
    UNION { [1..n -> [address : AddressSamples, name : NameSamples]] : n \in 0..MaxDevices }

\* ------------------------------ __init__.py and models.py: the connection task
\* The config entry as hass.data and Home Assistant hold it:
\*   stored  hass.data[DOMAIN][entry.entry_id] is there
\*   unload  what async_unload_entry last returned: "none" before its first call
\*   task    the background task that runs connect_loop:
\*     pc     the await it is suspended at ("start" before its first turn, "done"
\*            once it has ended, "cancelled" once it has ended by cancellation)
\*     steps  what the current turn of the loop has carried out so far
\*     cause  why it sleeps in sleep(10) or sleep(30), wait the seconds it sleeps
\*     tries  the turns of the while True begun so far
\*     base   how many write_gatt_char calls had been made when the turn began

\* what an awaited BLE call can raise, by the except clause that takes it
Exceptions == { "BleakError", "TimeoutError", "Exception" }

\* async_setup_entry: the entry's data stored, the task created
SetUp ==
    [stored |-> TRUE, unload |-> "none",
     task |-> [pc |-> "start", steps |-> << >>, cause |-> "none", wait |-> 0, tries |-> 0,
               base |-> 0]]

\* await asyncio.sleep(secs), entered for the given cause
Sleep(t, cause, secs) == [t EXCEPT !.pc = "sleep", !.cause = cause, !.wait = secs]

\* FAULT: no except Exception clause: any other exception ends the task
CaughtBleOnly(t, ex) ==
    IF ex \in { "BleakError", "TimeoutError" } THEN Sleep(t, ex, 10)
    ELSE [t EXCEPT !.pc = "done", !.cause = ex]

\* the except clauses of connect_loop: 10 s after a BleakError or a timeout, 30 s
\* after any other exception
Caught(t, ex) ==
    IF ex \in { "BleakError", "TimeoutError" } THEN Sleep(t, ex, 10)
    ELSE Sleep(t, ex, 30)

\* the result of an awaited call: it returned, or raised and an except clause took it
Outcome(t, outcome, returned) == IF outcome = "ok" THEN returned ELSE Caught(t, outcome)

\* one turn of the while True begins, n write_gatt_char calls made so far:
\* async_ble_device_from_address, then sleep(10) and continue when no device is
\* found, else establish_connection
Iterate(t, found, n) ==
    LET turn == [t EXCEPT !.tries = @ + 1, !.steps = << >>, !.base = n,
                          !.cause = "none", !.wait = 0]
    IN  IF found THEN [turn EXCEPT !.pc = "establish_connection"]
        ELSE Sleep(turn, "not_found", 10)

\* the steps of a connection in the order of the source
ConnectionSteps == << "connect", "clear", "subscribe", "handshake" >>

\* ------------------------------------------------- two managers side by side
\* the managers of two config entries
Managers == { 1, 2 }

\* how many notifications the two managers are given between them
MaxChunks == 3

\* FAULT: a sensor list that is one object for the class, shared by the instances
ManagerInitSharedList(k) == [rx_buffer |-> 3 * k - 2, data |-> 3 * k - 1, sensors |-> 3]

\* PowerWatchdogManager.__init__: the list, the WatchdogData and the bytearray
\* are objects created by this call, named here by their identity
ManagerInit(k) == [rx_buffer |-> 3 * k - 2, data |-> 3 * k - 1, sensors |-> 3 * k]

\* the objects as they are when created: bytearray(), WatchdogData(), []
NewObject(o) == IF o % 3 = 2 THEN WatchdogData ELSE << >>

\* a manager that is the only one: its buffer, snapshot, entities and their writes
Single == [buf |-> << >>, data |-> WatchdogData, sensors |-> << >>, writes |-> << >>]

\* two managers constructed, nothing received; alone[k] follows manager k as if
\* it were the only one, and fed counts the notifications
PeersInit ==
    [ref |-> [k \in Managers |-> ManagerInit(k)],
     heap |-> [o \in 1..6 |-> NewObject(o)],
     writes |-> << >>,
     alone |-> [k \in Managers |-> Single],
     fed |-> 0]

\* the chunks the two managers receive: a report in two parts, a two-line report,
\* and bytes that are no frame
PeerChunks ==
    { Slice(Library.T34a, 0, 20), Slice(Library.T34a, 20, Len(Library.T34a)),
      Library.T68, Library.Gb }

\* ------------------------------------------------------------------- state
VARIABLES
    pieces,     \* the transmissions the device sends on this run
    pos,        \* how many bytes of them have been delivered
    rx_buffer,  \* self._rx_buffer
    data,       \* self.data
    sensors,    \* self.sensors, the registered entities in registration order
    writes,     \* the async_write_ha_state calls made so far, by sensor
    packets,    \* the packets that passed the tail check so far
    seen,       \* the snapshot as it stood at each push to the sensors
    raised,     \* whether _notification_handler has raised
    mark,       \* pos, data and Len(packets) when the buffer was last cleared by a connection
    peers,      \* two managers set up side by side: their objects, by identity
    physical,   \* the readings a record is built from by build_dl_data, None when none is
    record,     \* the 34 bytes handed to _parse_dl_data, empty when there are none
    decoded,    \* the LineData _parse_dl_data returned for them
    client,     \* self.client
    gatt,       \* the write_gatt_char calls made on the client so far
    pressed,    \* for each press of the reset button, what self.client was and whether it raised
    flow,       \* the config flow's user step: what was discovered and what it returned
    entry       \* the config entry: whether hass.data holds its data, and its background task

\* the variables of _parse_dl_data alone, and those of the reset button
codecVars == << physical, record, decoded >>
buttonVars == << client, gatt, pressed >>

vars ==
    << pieces, pos, rx_buffer, data, sensors, writes, packets, seen, raised, mark, peers,
       physical, record, decoded, client, gatt, pressed, flow, entry >>

\* the manager as the record the handler works on
Manager ==
    [buf |-> rx_buffer, data |-> data, writes |-> writes, packets |-> packets, seen |-> seen,
     left |-> << >>, raised |-> raised]

\* nothing handed to _parse_dl_data on its own
CodecIdle == physical = None /\ record = << >> /\ decoded = LineData

\* no config flow started
FlowIdle == flow = [infos |-> << >>, current |-> { }, result |-> [type |-> "none"]]

\* PowerWatchdogManager.__init__, the device about to send the transmissions ps
Constructed(ps) ==
    /\ pieces = ps
    /\ pos = 0
    /\ rx_buffer = << >>
    /\ data = WatchdogData
    /\ sensors = << >>
    /\ writes = << >>
    /\ packets = << >>
    /\ seen = << >>
    /\ raised = FALSE
    /\ mark = [pos |-> 0, data |-> WatchdogData, packets |-> 0]
    /\ peers = PeersInit
    /\ client = None
    /\ gatt = << >>
    /\ pressed = << >>
    /\ entry = SetUp

\* PowerWatchdogManager.__init__
Init == \E ps \in PieceSeqs : Constructed(ps) /\ CodecIdle /\ FlowIdle

\* FAULT: a registration that writes the new entity's state when telemetry is there
RegisterSensorReplays ==
    /\ Len(sensors) < MaxSensors
    /\ sensors' = Append(sensors, Len(sensors) + 1)
    /\ writes' = IF data.l1 # LineData THEN Append(writes, Len(sensors) + 1) ELSE writes
    /\ UNCHANGED << pieces, pos, rx_buffer, data, packets, seen, raised, mark, peers, codecVars, buttonVars, flow, entry >>

\* register_sensor(sensor): the next entity registers
RegisterSensor ==
    /\ Len(sensors) < MaxSensors
    /\ sensors' = Append(sensors, Len(sensors) + 1)
    /\ UNCHANGED << pieces, pos, rx_buffer, data, writes, packets, seen, raised, mark, peers, codecVars, buttonVars, flow, entry >>

\* one BLE notification: _notification_handler with the next bytes of the stream
Notify ==
    \E c \in CutPoints(pieces) :
        /\ c > pos
        /\ \E st \in { NotificationHandler(Manager, Slice(Flatten(pieces), pos, c), sensors) } :
               /\ rx_buffer' = st.buf
               /\ data' = st.data
               /\ writes' = st.writes
               /\ seen' = st.seen
               /\ raised' = st.raised
               /\ packets' = st.packets
        /\ pos' = c
        /\ UNCHANGED << pieces, sensors, mark, peers, codecVars, buttonVars, flow, entry >>

\* FAULT: a connection that also starts from a fresh snapshot
ReconnectFresh ==
    /\ rx_buffer' = << >>
    /\ data' = WatchdogData
    /\ pos' = CHOOSE b \in Boundaries(pieces) :
                  b >= pos /\ \A b2 \in Boundaries(pieces) : b2 >= pos => b <= b2
    /\ mark' = [pos |-> pos', data |-> data', packets |-> Len(packets)]
    /\ UNCHANGED << pieces, sensors, writes, packets, seen, raised, peers, codecVars, buttonVars, flow, entry >>

\* FAULT: a connection that subscribes without emptying the buffer
ReconnectKeepsBuffer ==
    /\ rx_buffer' = rx_buffer
    /\ pos' = CHOOSE b \in Boundaries(pieces) :
                  b >= pos /\ \A b2 \in Boundaries(pieces) : b2 >= pos => b <= b2
    /\ mark' = [pos |-> pos', data |-> data, packets |-> Len(packets)]
    /\ UNCHANGED << pieces, data, sensors, writes, packets, seen, raised, peers, codecVars, buttonVars, flow, entry >>

\* connect_loop after establish_connection: self._rx_buffer.clear().  What was left
\* of the transmission in flight is lost with the old connection; the device goes
\* on with its next transmission.
Reconnect ==
    /\ rx_buffer' = << >>
    /\ pos' = CHOOSE b \in Boundaries(pieces) :
                  b >= pos /\ \A b2 \in Boundaries(pieces) : b2 >= pos => b <= b2
    /\ mark' = [pos |-> pos', data |-> data, packets |-> Len(packets)]
    /\ UNCHANGED << pieces, data, sensors, writes, packets, seen, raised, peers, codecVars, buttonVars, flow, entry >>

\* one connection: the notifications of a session and the entities registering
NextSession == Notify \/ RegisterSensor

SpecSession == Init /\ [][NextSession]_vars

\* a session in which the device sends one frame, of any length the header can
\* declare and the length check accepts
FrameRuns == { << "T34a" >>, << "T68" >>, << "Er" >>, << "Al" >>, << "Tm" >>, << "Un" >>,
               << "Rs" >>, << "Fit" >>, << "Wide" >> }

InitFrame == \E ps \in FrameRuns : Constructed(ps) /\ CodecIdle /\ FlowIdle

SpecFrame == InitFrame /\ [][NextSession]_vars

\* the runs looked at more closely: frames back to back, a frame behind garbage, a
\* bad tail, a refused dataLen, a malformed or unknown report, and an overflow
StreamRuns ==
    { << "T34a", "Er", "T68" >>, << "T68", "T34a" >>, << "T34a", "T68" >>, << "Gb", "T68" >>,
      << "Bt", "T34a" >>, << "Ov", "T34a" >>, << "Gh", "T68" >>, << "T68", "Tm" >>,
      << "Un", "T68" >>, << "Er", "Al" >>, << "Big", "T34a" >>, << "Gb", "Gb", "Er" >>,
      << "Rs", "T34a" >>, << "Junk", "T34a" >> }

InitStream == \E ps \in StreamRuns : Constructed(ps) /\ CodecIdle /\ FlowIdle

\* the manager over its lifetime: sessions separated by reconnections
Next == Notify \/ RegisterSensor \/ Reconnect

Spec == Init /\ [][Next]_vars

\* the same lifetime over the runs looked at more closely
SpecStream == InitStream /\ [][Next]_vars

\* manager k as the record the handler works on, read through its references
PeerManager(k) ==
    [buf |-> peers.heap[peers.ref[k].rx_buffer], data |-> peers.heap[peers.ref[k].data],
     writes |-> peers.writes, packets |-> << >>, seen |-> << >>, left |-> << >>,
     raised |-> FALSE]

\* the entities registered with manager k, read through its reference
PeerSensors(k) == peers.heap[peers.ref[k].sensors]

\* manager k as it would be if it were the only one
AloneManager(k) ==
    [buf |-> peers.alone[k].buf, data |-> peers.alone[k].data,
     writes |-> peers.alone[k].writes, packets |-> << >>, seen |-> << >>, left |-> << >>,
     raised |-> FALSE]

\* _notification_handler of manager k: the buffer and the snapshot are changed in
\* place, so the change is seen through every reference to the same object
PeerNotify ==
    \E k \in Managers, c \in PeerChunks :
        /\ peers.fed < MaxChunks
        /\ \E st \in { NotificationHandler(PeerManager(k), c, PeerSensors(k)) },
              sh \in { NotificationHandler(AloneManager(k), c, peers.alone[k].sensors) } :
               peers' = [peers EXCEPT
                           !.heap = [@ EXCEPT ![peers.ref[k].rx_buffer] = st.buf,
                                              ![peers.ref[k].data] = st.data],
                           !.writes = st.writes,
                           !.alone[k] = [buf |-> sh.buf, data |-> sh.data,
                                         sensors |-> @.sensors, writes |-> sh.writes],
                           !.fed = @ + 1]
        /\ UNCHANGED << pieces, pos, rx_buffer, data, sensors, writes, packets, seen,
                        raised, mark, codecVars, buttonVars, flow, entry >>

\* register_sensor on manager k: self.sensors.append(sensor), in place; the
\* entities of manager k are numbered 10 * k + 1, 10 * k + 2, ...
PeerRegister ==
    \E k \in Managers :
        /\ Len(peers.alone[k].sensors) < MaxSensors
        /\ \E e \in { 10 * k + Len(peers.alone[k].sensors) + 1 } :
               peers' = [peers EXCEPT
                           !.heap = [@ EXCEPT ![peers.ref[k].sensors] = Append(@, e)],
                           !.alone[k].sensors = Append(@, e)]
        /\ UNCHANGED << pieces, pos, rx_buffer, data, sensors, writes, packets, seen,
                        raised, mark, codecVars, buttonVars, flow, entry >>

\* the two managers of a process, fed in any interleaving
InitPair == Init /\ pieces = << >>

NextPair == PeerNotify \/ PeerRegister

SpecPair == InitPair /\ [][NextPair]_vars

\* build_dl_data on the readings
Encode ==
    /\ physical # None
    /\ record = << >>
    /\ record' \in RecordsOf(physical)
    /\ UNCHANGED << pieces, pos, rx_buffer, data, sensors, writes, packets, seen, raised,
                    mark, peers, physical, decoded, buttonVars, flow, entry >>

\* _parse_dl_data(record, 0); a read beyond the bytes present raises struct.error
\* or IndexError, and nothing is returned
Decode ==
    /\ record # << >>
    /\ decoded = LineData
    /\ decoded' = IF DlDataReadable(record, 0) THEN ParseDlData(record, 0)
                  ELSE [raised |-> TRUE]
    /\ UNCHANGED << pieces, pos, rx_buffer, data, sensors, writes, packets, seen, raised,
                    mark, peers, physical, record, buttonVars, flow, entry >>

\* _parse_dl_data on its own: a record of arbitrary bytes, or readings to encode
InitCodec ==
    /\ Constructed(<< >>)
    /\ FlowIdle
    /\ decoded = LineData
    /\ \/ physical = None /\ record \in RecordSamples
       \/ physical \in PhysicalSamples /\ record = << >>

NextCodec == Encode \/ Decode

SpecCodec == InitCodec /\ [][NextCodec]_vars

\* ------------------------------------------------ button.py: the reset button
\* FAULT: if self._manager.client.is_connected, which raises when there is no client
PressOutcomeNoClientTest(c) == IF c = None THEN "raise" ELSE IF c[1] THEN "write" ELSE "skip"

\* if self._manager.client and self._manager.client.is_connected: the client is
\* None or Some(is_connected), and is_connected is read only when there is one
PressOutcome(c) == IF c # None /\ c[1] THEN "write" ELSE "skip"

\* client.write_gatt_char(CHARACTERISTIC_UUID, payload, response=True)
GattWrite(payload) == [char |-> CHARACTERISTIC_UUID, payload |-> payload, response |-> TRUE]

\* connect_loop: self.client = await establish_connection(...), the buffer
\* cleared, and the handshake written, once no connected client is held
Connect ==
    /\ client \in { None, Some(FALSE) }
    /\ Len(gatt) < MaxWrites
    /\ client' = Some(TRUE)
    /\ rx_buffer' = << >>
    /\ gatt' = Append(gatt, GattWrite(HANDSHAKE_PAYLOAD))
    /\ UNCHANGED << pieces, pos, data, sensors, writes, packets, seen, raised, mark, peers,
                    codecVars, pressed, flow, entry >>

\* the link drops: the client is kept, no longer connected
Disconnect ==
    /\ client = Some(TRUE)
    /\ client' = Some(FALSE)
    /\ UNCHANGED << pieces, pos, rx_buffer, data, sensors, writes, packets, seen, raised,
                    mark, peers, codecVars, gatt, pressed, flow, entry >>

\* WatchdogResetButton.async_press; pressed records what the client was, whether
\* the press raised, and the writes it made
Press ==
    /\ Len(pressed) < MaxPresses
    /\ gatt' = IF PressOutcome(client) = "write"
               THEN Append(gatt, GattWrite(CMD_RESET_ENERGY))
               ELSE gatt
    /\ pressed' = Append(pressed, [client |-> client,
                                   raised |-> PressOutcome(client) = "raise",
                                   wrote |-> SubSeq(gatt', Len(gatt) + 1, Len(gatt'))])
    /\ UNCHANGED << pieces, pos, rx_buffer, data, sensors, writes, packets, seen, raised,
                    mark, peers, codecVars, client, flow, entry >>

\* the button pressed at any time while the connection comes and goes
InitButton == Constructed(<< >>) /\ CodecIdle /\ FlowIdle

NextButton == Connect \/ Disconnect \/ Press

SpecButton == InitButton /\ [][NextButton]_vars

\* async_step_user(None), once
UserStep ==
    /\ flow.result.type = "none"
    /\ flow' = [flow EXCEPT !.result = StepUser(flow.infos, flow.current)]
    /\ UNCHANGED << pieces, pos, rx_buffer, data, sensors, writes, packets, seen, raised,
                    mark, peers, codecVars, buttonVars, entry >>

\* the user step of the config flow, for any advertisements and any entries
\* already configured
InitFlow ==
    /\ Constructed(<< >>)
    /\ CodecIdle
    /\ flow \in [infos : ServiceInfos, current : SUBSET AddressSamples,
                 result : { [type |-> "none"] }]

NextFlow == UserStep

SpecFlow == InitFlow /\ [][NextFlow]_vars

\* ------------------------------------ connect_loop and async_unload_entry
\* the variables connect_loop and async_unload_entry leave alone
loopOther ==
    << pieces, pos, data, sensors, writes, packets, seen, raised, mark, peers, codecVars,
       pressed, flow >>

\* the task, and the task replaced in the entry
Task == entry.task
WithTask(t) == [entry EXCEPT !.task = t]

\* the task runs for the first time
Start ==
    /\ Task.pc = "start"
    /\ Task.tries < MaxAttempts
    /\ \E found \in BOOLEAN : entry' = WithTask(Iterate(Task, found, Len(gatt)))
    /\ UNCHANGED << loopOther, rx_buffer, client, gatt >>

\* sleep(10) or sleep(30) is over: the loop goes round
Wake ==
    /\ Task.pc = "sleep"
    /\ Task.tries < MaxAttempts
    /\ \E found \in BOOLEAN : entry' = WithTask(Iterate(Task, found, Len(gatt)))
    /\ UNCHANGED << loopOther, rx_buffer, client, gatt >>

\* FAULT: the handshake written as soon as the connection is there, before
\* start_notify is called
EstablishedWritesFirst ==
    /\ Task.pc = "establish_connection"
    /\ \E outcome \in { "ok" } \cup Exceptions :
           /\ entry' = WithTask(Outcome(Task, outcome,
                                        [Task EXCEPT !.pc = "start_notify",
                                                     !.steps = << "connect", "clear" >>]))
           /\ client' = IF outcome = "ok" THEN Some(TRUE) ELSE client
           /\ rx_buffer' = IF outcome = "ok" THEN << >> ELSE rx_buffer
           /\ gatt' = IF outcome = "ok" THEN Append(gatt, GattWrite(HANDSHAKE_PAYLOAD))
                      ELSE gatt
    /\ UNCHANGED << loopOther >>

\* establish_connection returns or raises: self.client is assigned, the buffer
\* cleared and start_notify called; or an except clause is entered, self.client
\* and the buffer as they were
Established ==
    /\ Task.pc = "establish_connection"
    /\ \E outcome \in { "ok" } \cup Exceptions :
           /\ entry' = WithTask(Outcome(Task, outcome,
                                        [Task EXCEPT !.pc = "start_notify",
                                                     !.steps = << "connect", "clear" >>]))
           /\ client' = IF outcome = "ok" THEN Some(TRUE) ELSE client
           /\ rx_buffer' = IF outcome = "ok" THEN << >> ELSE rx_buffer
    /\ UNCHANGED << loopOther, gatt >>

\* start_notify returns or raises: write_gatt_char is called with the handshake,
\* or an except clause is entered
Subscribed ==
    /\ Task.pc = "start_notify"
    /\ \E outcome \in { "ok" } \cup Exceptions :
           /\ entry' = WithTask(Outcome(Task, outcome,
                                        [Task EXCEPT !.pc = "write_gatt_char",
                                                     !.steps = Append(@, "subscribe")]))
           /\ gatt' = IF outcome = "ok" THEN Append(gatt, GattWrite(HANDSHAKE_PAYLOAD))
                      ELSE gatt
    /\ UNCHANGED << loopOther, rx_buffer, client >>

\* write_gatt_char returns or raises: the keep-alive loop is entered, or an except
\* clause
Written ==
    /\ Task.pc = "write_gatt_char"
    /\ \E outcome \in { "ok" } \cup Exceptions :
           entry' = WithTask(Outcome(Task, outcome,
                                     [Task EXCEPT !.pc = "keepalive", !.wait = 5,
                                                  !.steps = Append(@, "handshake")]))
    /\ UNCHANGED << loopOther, rx_buffer, client, gatt >>

\* the keep-alive test, while self.client and self.client.is_connected, fails: the
\* loop goes round.  While it holds the task sleeps 5 s more and nothing changes.
Poll ==
    /\ Task.pc = "keepalive"
    /\ ~(client # None /\ client[1])
    /\ Task.tries < MaxAttempts
    /\ \E found \in BOOLEAN : entry' = WithTask(Iterate(Task, found, Len(gatt)))
    /\ UNCHANGED << loopOther, rx_buffer, client, gatt >>

\* task.cancel() and the gather that awaits it: CancelledError is raised at the
\* await the task is suspended at, no except clause of connect_loop takes it, and
\* the task ends; a task that has ended stays as it is
Cancelled(t) == IF t.pc \in { "done", "cancelled" } THEN t ELSE [t EXCEPT !.pc = "cancelled"]

\* async_unload_entry, unload_ok what async_unload_platforms returned
UnloadEntry(e, unload_ok) ==
    IF unload_ok
    THEN [stored |-> FALSE, unload |-> "ok", task |-> Cancelled(e.task)]
    ELSE [e EXCEPT !.unload = "failed"]

\* async_unload_entry(hass, entry) on an entry that is set up
Unload ==
    /\ entry.stored
    /\ \E unload_ok \in BOOLEAN : entry' = UnloadEntry(entry, unload_ok)
    /\ UNCHANGED << loopOther, rx_buffer, client, gatt >>

\* the entry from async_setup_entry on: the task, the link that can drop, the unload
InitLoop == Constructed(<< >>) /\ CodecIdle /\ FlowIdle

NextLoop ==
    Start \/ Wake \/ Established \/ Subscribed \/ Written \/ Poll \/ Disconnect \/ Unload

SpecLoop == InitLoop /\ [][NextLoop]_vars

\* the event loop runs the task when what it awaits is there: a sleep ends, and an
\* awaited call returns or raises
FairLoop ==
    /\ SpecLoop
    /\ WF_vars(Start) /\ WF_vars(Wake) /\ WF_vars(Established) /\ WF_vars(Subscribed)
    /\ WF_vars(Written) /\ WF_vars(Poll)

\* --------------------------------------------------- sensor.py: the entities
\* the fields the line sensors show, and those the total sensors show
SensorFields == { "voltage", "current", "power", "energy", "frequency", "output_voltage" }
TotalFields == { "power", "energy" }

\* FAULT: availability read from the field alone, has_l2 not consulted
LineAvailableByField(d, line, field) == d[line][field] # None

\* PowerWatchdogLineSensor.available for the sensor of a line ("l1" or "l2") and field
LineAvailable(d, line, field) ==
    IF line = "l2" /\ ~d.has_l2 THEN FALSE
    ELSE d[line][field] # None

\* PowerWatchdogLineSensor.native_value
LineValue(d, line, field) == d[line][field]

\* PowerWatchdogTotalSensor.available
TotalAvailable(d, field) == d.l1[field] # None

\* total + l2_val on doubles, in hundredths of a rounding step of the field: the
\* decimal sum give or take a float error far below a step
FloatSum(a, b) == { (a + b) * 100 + e : e \in { -1, 0, 1 } }

\* round(x, 2) of such a sum, back in steps
Round2(x) == RoundDiv(x, 100)

\* FAULT: line 2 added whenever it holds a value, has_l2 not consulted
TotalValuesStale(d, field) ==
    IF d.l1[field] = None THEN { None }
    ELSE IF d.l2[field] # None
    THEN { Some(Round2(x)) : x \in FloatSum(d.l1[field][1], d.l2[field][1]) }
    ELSE { d.l1[field] }

\* PowerWatchdogTotalSensor.native_value: the values it can return, one for each
\* float error of the sum
TotalValues(d, field) ==
    IF d.l1[field] = None THEN { None }
    ELSE IF d.has_l2 /\ d.l2[field] # None
    THEN { Some(Round2(x)) : x \in FloatSum(d.l1[field][1], d.l2[field][1]) }
    ELSE { d.l1[field] }

\* ------------------------------------------------------------ what is checked
\* the bytes the device sends on this run
Stream == Flatten(pieces)

\* a manager with an empty buffer, the snapshot d, and no history
Fresh(d) ==
    [buf |-> << >>, data |-> d, writes |-> << >>, packets |-> << >>, seen |-> << >>,
     left |-> << >>, raised |-> FALSE]

\* the packets decoded since the buffer was last cleared by a connection
DecodedSinceMark == SubSeq(packets, mark.packets + 1, Len(packets))

\* everything delivered since then, handed to the handler as a single chunk
OneShot == NotificationHandler(Fresh(mark.data), Slice(Stream, mark.pos, pos), << >>)

\* the transmissions that are complete frames with the right tail
ValidFrames == { "T34a", "T68", "Er", "Al", "Tm", "Un", "Rs" }

\* the transmissions that are no frame at all
GarbageNames == { "Gb", "Gh", "Junk" }

\* the packet a valid frame carries
PacketOf(name) ==
    LET f == Library[name] IN << At(f, 6), Slice(f, HEADER_SIZE, Len(f) - TAIL_SIZE) >>

\* the frame alone, handed to a fresh manager
Alone(name) == NotificationHandler(Fresh(WatchdogData), Library[name], << >>)

\* the identifier occurs somewhere in the bytes
HasIdentifier(bytes) == \E i \in 0..(Len(bytes) - 4) : IdentifierAt(bytes, i)

\* the last transmission of the run, and the bytes before it
LastPiece == pieces[Len(pieces)]
Preamble == Flatten(SubSeq(pieces, 1, Len(pieces) - 1))

\* the whole run has been delivered over one connection
AllDelivered == mark.pos = 0 /\ pos = StreamLen(pieces)

\* C1, as stated: however a byte sequence is split into notifications, the packets
\* decoded and the snapshot are those of the whole sequence given as one chunk.
C1_AnySequence ==
    /\ DecodedSinceMark = OneShot.packets
    /\ data = OneShot.data

\* C1, for sequences of at most MAX_BUFFER_SIZE bytes: however such a sequence is
\* split into notifications, the packets decoded and the snapshot are those of the
\* whole sequence given as one chunk.
C1_FragmentationTransparency ==
    pos - mark.pos <= MAX_BUFFER_SIZE => C1_AnySequence

\* a frame has been decoded and the next one is in the buffer in part
C1_Witness ==
    /\ pos - mark.pos <= MAX_BUFFER_SIZE
    /\ pos \notin Boundaries(pieces)
    /\ Len(packets) >= 1
    /\ Len(rx_buffer) > HEADER_SIZE
    /\ IdentifierAt(rx_buffer, 0)

\* C2, as stated: garbage followed by a valid frame decodes as the frame alone.
C2_AnyGarbage ==
    ( /\ AllDelivered
      /\ Len(pieces) >= 2
      /\ LastPiece \in ValidFrames
      /\ \A i \in 1..(Len(pieces) - 1) : pieces[i] \in GarbageNames )
    => /\ packets = Alone(LastPiece).packets
       /\ data = Alone(LastPiece).data

\* C2, for garbage that does not contain the identifier and is, with the frame, at
\* most MAX_BUFFER_SIZE bytes long: such garbage followed by a valid frame decodes
\* as the frame alone, and the frame is the one packet decoded.
C2_GarbageSkipping ==
    ( /\ AllDelivered
      /\ StreamLen(pieces) <= MAX_BUFFER_SIZE
      /\ Len(pieces) >= 2
      /\ LastPiece \in ValidFrames
      /\ ~HasIdentifier(Preamble) )
    => /\ packets = << PacketOf(LastPiece) >>
       /\ packets = Alone(LastPiece).packets
       /\ data = Alone(LastPiece).data
       /\ rx_buffer = << >>

\* garbage ending in the identifier's first bytes, then a two-line report, decoded
C2_Witness ==
    /\ AllDelivered
    /\ pieces = << "Gb", "T68" >>
    /\ packets = << PacketOf("T68") >>
    /\ data.has_l2

\* ---------------------------------------- a notification seen as one step
\* the step is a notification (a reconnection that moves pos also moves mark)
NotifyStep == pos' > pos /\ mark' = mark

\* the buffer after the chunk of this step is appended: what _try_parse_packet
\* is first called on, unless the overflow guard fires
Received == rx_buffer \o Slice(Stream, pos, pos')

\* _try_parse_packet and the whole loop on the current manager with b as its buffer
FirstCall(b) == TryParsePacket([Manager EXCEPT !.buf = b], sensors)
WholeLoop(b) == ParseLoop([Manager EXCEPT !.buf = b], sensors)

\* neither the snapshot nor the two logs differ from the current ones
Untouched(st) == st.data = data /\ st.packets = packets /\ st.writes = writes
SnapshotKept == data' = data /\ packets' = packets /\ writes' = writes

\* the frame layout read at offset j of b: identifier(4) version msgId cmd dataLen(2)
BodyLen(b, j) == U16BE(b, j + 7)
FrameLen(b, j) == HEADER_SIZE + BodyLen(b, j) + TAIL_SIZE
HeaderAt(b, j) == Len(b) - j >= HEADER_SIZE /\ IdentifierAt(b, j)
CompleteAt(b, j) ==
    /\ HeaderAt(b, j)
    /\ BodyLen(b, j) <= MAX_BUFFER_SIZE
    /\ Len(b) - j >= FrameLen(b, j)
TailAt(b, j) == U16BE(b, j + HEADER_SIZE + BodyLen(b, j))
ValidAt(b, j) == CompleteAt(b, j) /\ TailAt(b, j) = PACKET_TAIL
BadTailAt(b) == CompleteAt(b, 0) /\ TailAt(b, 0) # PACKET_TAIL
PacketAt(b, j) ==
    << At(b, j + 6), Slice(b, j + HEADER_SIZE, j + HEADER_SIZE + BodyLen(b, j)) >>

\* the offset of the first identifier in b, Len(b) when there is none
FirstIdentifier(b) ==
    IF HasIdentifier(b)
    THEN CHOOSE i \in 0..(Len(b) - 4) :
             IdentifierAt(b, i) /\ \A j \in 0..(i - 1) : ~IdentifierAt(b, j)
    ELSE Len(b)

\* the largest member of a non-empty set of numbers
Largest(S) == CHOOSE m \in S : \A x \in S : x <= m

\* the packet is a telemetry report of one or two records
IsReport(pkt) ==
    /\ pkt[1] = CMD_DL_REPORT
    /\ Len(pkt[2]) \in { DL_DATA_SIZE, 2 * DL_DATA_SIZE }

\* the snapshot d shows the telemetry body: line 1 from its bytes 0..33, and line 2
\* from its bytes 34..67 when it has them
Reflects(d, body) ==
    /\ d.l1 = ParseDlData(Slice(body, 0, DL_DATA_SIZE), 0)
    /\ IF Len(body) = DL_DATA_SIZE
       THEN d.has_l2 = FALSE
       ELSE /\ d.has_l2 = TRUE
            /\ d.l2 = ParseDlData(Slice(body, DL_DATA_SIZE, 2 * DL_DATA_SIZE), 0)

\* ---- oversized dataLen
\* b starts with a header whose dataLen is rejected
Oversized(b) == HeaderAt(b, 0) /\ BodyLen(b, 0) > MAX_BUFFER_SIZE

\* the frame at the next identifier j of what is left, when valid, is the next packet
C3_Later(rest, j) ==
    ValidAt(rest, j)
    => /\ Len(packets') > Len(packets)
       /\ packets'[Len(packets) + 1] = PacketAt(rest, j)

\* what the first call r on b does, rest being b without its first 4 bytes
C3_Effect(b, r, rest) ==
    /\ r.consumed
    /\ r.st.buf = rest
    /\ Untouched(r.st)
    /\ C3_Later(rest, FirstIdentifier(rest))

C3_Case(b) ==
    (Len(b) <= MAX_BUFFER_SIZE /\ Oversized(b)) => C3_Effect(b, FirstCall(b), DelFront(b, 4))

C3_Step == NotifyStep => C3_Case(Received)

\* C3: when the buffer starts with the identifier, holds at least 9 bytes and its
\* length field exceeds MAX_BUFFER_SIZE, _try_parse_packet removes exactly the first
\* 4 bytes, reports consumed and changes nothing else; and when the next identifier
\* in what is left starts a complete valid frame, that frame is decoded in the same
\* notification.
C3_OversizedBodyLength == [][C3_Step]_vars

\* a header cut short, then a report: the report is decoded
C3_Witness ==
    /\ AllDelivered
    /\ pieces = << "Ov", "T34a" >>
    /\ packets = << PacketOf("T34a") >>

\* C4: whenever _notification_handler has returned, and after a reconnection has
\* cleared the buffer, the buffer holds at most MAX_BUFFER_SIZE bytes.
C4_BufferBound == Len(rx_buffer) <= MAX_BUFFER_SIZE

\* after a reconnection, the buffer filled to the limit
C4_Witness == mark.pos > 0 /\ Len(rx_buffer) = MAX_BUFFER_SIZE

\* ---- overflow guard
\* the step ends in the state st
C5_Extracted(st) ==
    /\ rx_buffer' = st.buf
    /\ data' = st.data
    /\ packets' = st.packets
    /\ writes' = st.writes

C5_Case(b) ==
    IF Len(b) > MAX_BUFFER_SIZE
    THEN rx_buffer' = << >> /\ SnapshotKept
    ELSE C5_Extracted(WholeLoop(b))

C5_Step == NotifyStep => C5_Case(Received)

\* C5: a notification clears the buffer exactly when the buffer with the chunk
\* appended is longer than MAX_BUFFER_SIZE; then everything is discarded, the
\* snapshot is unchanged, nothing is decoded and no sensor is written; otherwise
\* the outcome is that of the extraction loop on the buffer with the chunk appended.
C5_OverflowGuard == [][C5_Step]_vars

\* a full buffer, then a chunk that ends a valid report: all of it discarded with
\* a sensor registered
C5_Witness ==
    /\ AllDelivered
    /\ pieces = << "Big", "T34a" >>
    /\ rx_buffer = << >>
    /\ packets = << >>
    /\ data = WatchdogData
    /\ sensors # << >>
    /\ writes = << >>

\* ---- bad tail
\* what the first call r on b does when b starts with a bad-tail frame
C6_Effect(b, r) ==
    /\ r.consumed
    /\ r.st.buf = DelFront(b, FrameLen(b, 0))
    /\ Untouched(r.st)
    /\ Len(b) = FrameLen(b, 0) => rx_buffer' = << >> /\ SnapshotKept

C6_Case(b) ==
    (Len(b) <= MAX_BUFFER_SIZE /\ BadTailAt(b)) => C6_Effect(b, FirstCall(b))

C6_Step == NotifyStep => C6_Case(Received)

\* C6: when the buffer starts with a complete frame whose tail is not PACKET_TAIL,
\* _try_parse_packet removes exactly 9 + dataLen + 2 bytes, reports consumed,
\* dispatches nothing, leaves the snapshot and writes no sensor; when the frame is
\* all the buffer holds, the notification ends with the buffer empty.
C6_BadTail == [][C6_Step]_vars

\* the report with the flipped tail delivered with a sensor registered: nothing of it left
C6_Witness ==
    /\ mark.pos = 0
    /\ pieces # << >>
    /\ pieces[1] = "Bt"
    /\ pos = Len(Library.Bt)
    /\ rx_buffer = << >>
    /\ packets = << >>
    /\ data = WatchdogData
    /\ sensors # << >>
    /\ writes = << >>

\* a bad-tail frame and a valid frame right behind it: the valid one is the next packet
C7_Case(b) ==
    ( /\ Len(b) <= MAX_BUFFER_SIZE
      /\ BadTailAt(b)
      /\ ValidAt(b, FrameLen(b, 0)) )
    => /\ Len(packets') > Len(packets)
       /\ packets'[Len(packets) + 1] = PacketAt(b, FrameLen(b, 0))

C7_Step == NotifyStep => C7_Case(Received)

\* C7: when a frame with a bad tail is followed at once by a complete valid frame in
\* the buffer, that frame is decoded in the same notification.
C7_BadTailNotFatal == [][C7_Step]_vars

\* the corrupt report, then a valid one: the valid one decoded
C7_Witness ==
    /\ AllDelivered
    /\ pieces = << "Bt", "T34a" >>
    /\ packets = << PacketOf("T34a") >>
    /\ rx_buffer = << >>

\* ---- waiting
\* b begins with the identifier and the frame behind it is not complete
Waiting(b) ==
    /\ Len(b) >= 4
    /\ IdentifierAt(b, 0)
    /\ \/ Len(b) < HEADER_SIZE
       \/ BodyLen(b, 0) <= MAX_BUFFER_SIZE /\ Len(b) < FrameLen(b, 0)

\* the first call r on b, and the step, leave everything as it is
C8_Effect(b, r) ==
    /\ ~r.consumed
    /\ r.st.buf = b
    /\ Untouched(r.st)
    /\ rx_buffer' = b
    /\ SnapshotKept

C8_Case(b) ==
    (Len(b) <= MAX_BUFFER_SIZE /\ Waiting(b)) => C8_Effect(b, FirstCall(b))

C8_Step == NotifyStep => C8_Case(Received)

\* the frame that opens the stream is decoded once all of it has arrived
C8_Completes ==
    ( /\ mark.pos = 0
      /\ pieces # << >>
      /\ pieces[1] \in ValidFrames
      /\ pos >= Len(Library[pieces[1]])
      /\ pos <= MAX_BUFFER_SIZE )
    => /\ packets # << >>
       /\ packets[1] = PacketOf(pieces[1])

PiecesBefore(off) == CHOOSE n \in 0..Len(pieces) : StreamLen(SubSeq(pieces, 1, n)) = off

\* the transmissions this step delivers, when it goes from boundary to boundary
Frames == SubSeq(pieces, PiecesBefore(pos) + 1, PiecesBefore(pos'))

\* the step brings whole valid frames to an empty buffer
WholeFrames ==
    /\ NotifyStep
    /\ rx_buffer = << >>
    /\ pos \in Boundaries(pieces)
    /\ pos' \in Boundaries(pieces)
    /\ pos' - pos <= MAX_BUFFER_SIZE
    /\ \A n \in 1..Len(Frames) : Frames[n] \in ValidFrames

C9_Step ==
    WholeFrames
    => /\ packets' = packets \o [n \in 1..Len(Frames) |-> PacketOf(Frames[n])]
       /\ rx_buffer' = << >>
       /\ LET reports == { n \in 1..Len(Frames) : IsReport(PacketOf(Frames[n])) }
          IN  /\ Len(writes') = Len(writes) + Cardinality(reports) * Len(sensors)
              /\ IF reports = { }
                 THEN data' = data
                 ELSE Reflects(data', PacketOf(Frames[Largest(reports)])[2])

\* C9: when one notification brings whole valid frames, and nothing else, to an
\* empty buffer, within MAX_BUFFER_SIZE bytes, each frame is dispatched once, in
\* stream order; each sensor is written once per telemetry report of one or two
\* records; the snapshot shows the last such report, or is unchanged when there is
\* none; and the buffer ends empty.
C9_MultipleFrames == [][C9_Step]_vars

\* a report, an error report and a two-line report, all decoded
C9_Witness ==
    /\ AllDelivered
    /\ pieces = << "T34a", "Er", "T68" >>
    /\ Len(packets) = 3
    /\ rx_buffer = << >>
    /\ data.has_l2

\* ---- telemetry
\* the positions in packets of the telemetry reports of a known length
Reports ==
    { n \in 1..Len(packets) : IsReport(packets[n]) }

\* C10: the snapshot shows the last telemetry report decoded: with a 34-byte body,
\* line 1 from bytes 0..33 and has_l2 false; with a 68-byte body, line 1 from
\* bytes 0..33, line 2 from bytes 34..67 and has_l2 true.
C10_TelemetryDispatch ==
    Reports # { } => Reflects(data, packets[Largest(Reports)][2])

\* the values the two-line report T68 was built from: 119.0 V, -1.50 A, -500.0 W,
\* 21000.00 kWh, 120.5 V out, 50.0 Hz on line 1; 122.7 V, 0.36 A, 7.0 W, 500.25 kWh,
\* 122.8 V out, 60.0 Hz on line 2
LineC ==
    [voltage |-> Some(1190), current |-> Some(-150), power |-> Some(-5000),
     energy |-> Some(2100000), output_voltage |-> Some(1205), frequency |-> Some(500),
     error_code |-> Some(3), status |-> Some(2), boost |-> Some(TRUE)]
LineD ==
    [voltage |-> Some(1227), current |-> Some(36), power |-> Some(70),
     energy |-> Some(50025), output_voltage |-> Some(1228), frequency |-> Some(600),
     error_code |-> Some(5), status |-> Some(1), boost |-> Some(TRUE)]

\* the two-line report decoded into both lines
C10_Witness == data.has_l2 /\ data.l1 = LineC /\ data.l2 = LineD

\* ---- malformed telemetry body
\* b starts with a complete valid frame of cmd 1 whose body is neither one nor two records
MalformedAt(b) ==
    /\ ValidAt(b, 0)
    /\ At(b, 6) = CMD_DL_REPORT
    /\ BodyLen(b, 0) \notin { DL_DATA_SIZE, 2 * DL_DATA_SIZE }

\* the frame at the next identifier j of rest, when valid, is the packet after the next
C11_Continues(rest, j) ==
    ValidAt(rest, j)
    => /\ Len(packets') > Len(packets) + 1
       /\ packets'[Len(packets) + 2] = PacketAt(rest, j)

\* what the first call r on b does, rest being b without its first frame
C11_Effect(b, r, rest) ==
    /\ r.consumed
    /\ r.st.buf = rest
    /\ r.st.data = data
    /\ r.st.writes = writes
    /\ r.st.packets = Append(packets, PacketAt(b, 0))
    /\ C11_Continues(rest, FirstIdentifier(rest))
    /\ rest = << >> => rx_buffer' = << >> /\ data' = data /\ writes' = writes

C11_Case(b) ==
    (Len(b) <= MAX_BUFFER_SIZE /\ MalformedAt(b))
    => C11_Effect(b, FirstCall(b), DelFront(b, FrameLen(b, 0)))

C11_Step == NotifyStep => C11_Case(Received)

\* C11: when the buffer starts with a correctly framed telemetry report (cmd 1)
\* whose body length is neither 34 nor 68, _try_parse_packet removes the frame,
\* reports consumed, leaves the snapshot (l1, l2, has_l2) as it was and writes no
\* sensor; a valid frame at the next identifier is handled in the same
\* notification, and when the frame is all the buffer holds the notification ends
\* with the buffer empty, the snapshot unchanged and no sensor written.
C11_MalformedBody == [][C11_Step]_vars

\* a two-line report written to both sensors, then the 50-byte report: the snapshot
\* still shows the two-line report and no further write was made
C11_Witness ==
    /\ AllDelivered
    /\ pieces = << "T68", "Tm" >>
    /\ packets = << PacketOf("T68"), PacketOf("Tm") >>
    /\ data.has_l2 /\ data.l1 = LineC /\ data.l2 = LineD
    /\ sensors = << 1, 2 >>
    /\ writes = << 1, 2 >>
    /\ rx_buffer = << >>

\* C12: in every state, across notifications, registrations and reconnections,
\* has_l2 is true exactly when a telemetry report of one or two records has been
\* decoded and the last such report had a body of 68 bytes.  has_l2 being a
\* function of the last report decoded, nothing else changes it.
C12_HasL2 ==
    data.has_l2 <=> ( /\ Reports # { }
                      /\ Len(packets[Largest(Reports)][2]) = 2 * DL_DATA_SIZE )

\* a two-line report, a reconnection, and a frame handled after it that is no
\* report of one or two records: has_l2 is still true
C12_Witness ==
    /\ data.has_l2
    /\ mark.pos > 0
    /\ Len(packets) > mark.packets
    /\ mark.packets = Largest(Reports)

\* ---- commands other than the telemetry report
\* b starts with a complete valid frame of a command other than cmd 1
OtherCmdAt(b) == ValidAt(b, 0) /\ At(b, 6) # CMD_DL_REPORT

\* what the first call r on b does, rest being b without its first frame
C13_Effect(b, r, rest) ==
    /\ r.consumed
    /\ r.st.buf = rest
    /\ r.st.data = data
    /\ r.st.writes = writes
    /\ r.st.packets = Append(packets, PacketAt(b, 0))
    /\ rest = << >> => rx_buffer' = << >> /\ data' = data /\ writes' = writes

C13_Case(b) ==
    (Len(b) <= MAX_BUFFER_SIZE /\ OtherCmdAt(b))
    => C13_Effect(b, FirstCall(b), DelFront(b, FrameLen(b, 0)))

\* a step that changes the snapshot or writes a sensor dispatched a cmd-1 packet
C13_OnlyCmd1 ==
    (data' # data \/ writes' # writes)
    => \E n \in (Len(packets) + 1)..Len(packets') : packets'[n][1] = CMD_DL_REPORT

C13_Step == NotifyStep => C13_Case(Received) /\ C13_OnlyCmd1

\* C13: when the buffer starts with a valid frame whose command is not 1 (the error
\* report, the alarm, the reset command's 3, the unknown 99), whatever its body,
\* _try_parse_packet removes the frame, reports consumed, leaves the snapshot as
\* it was and writes no sensor; and no notification changes the snapshot or writes
\* a sensor unless it dispatches a packet of cmd 1.
C13_NonTelemetryIgnored == [][C13_Step]_vars

\* a report written to both sensors, then the frame of command 99 that carries a
\* telemetry record: the snapshot still shows the report, no further write
C13_Witness ==
    /\ AllDelivered
    /\ pieces = << "T34a", "Un" >>
    /\ packets = << PacketOf("T34a"), PacketOf("Un") >>
    /\ data.l1 = ParseDlData(RecA, 0)
    /\ data.l1 # ParseDlData(RecE, 0)
    /\ writes = << 1, 2 >>
    /\ rx_buffer = << >>

\* ---- the sensors
\* the sequence s written k times over
Repeat(s, k) == [i \in 1..(k * Len(s)) |-> s[((i - 1) % Len(s)) + 1]]

\* the number of telemetry reports of one or two records this step dispatches
NewReports ==
    Cardinality({ n \in (Len(packets) + 1)..Len(packets') : IsReport(packets'[n]) })

\* the writes of a step: the registered sensors, in registration order, once per
\* report the step decodes, and nothing else
C14_Step == writes' = writes \o Repeat(sensors, NewReports)

\* C14: within the notification that decodes it, each telemetry report of one or
\* two records writes the state of every registered sensor exactly once, in
\* registration order; a step writes no sensor otherwise (other commands, a
\* malformed body, a bad tail, an oversized length, an overflow, a partial frame,
\* a registration).
C14_ObserverFanOut == [][C14_Step]_vars

\* two reports decoded with two sensors registered: each written twice, in order
C14_Witness ==
    /\ sensors = << 1, 2 >>
    /\ writes = << 1, 2, 1, 2 >>
    /\ Cardinality(Reports) = 2

\* how many times sensor k occurs in the write log w
Count(w, k) == Cardinality({ i \in 1..Len(w) : w[i] = k })

\* a registration writes nothing, and a sensor is written once per report decoded
\* from its registration on
C15_Step ==
    /\ sensors' # sensors => writes' = writes
    /\ \A k \in 1..Len(sensors) : Count(writes', k) = Count(writes, k) + NewReports

\* C15: register_sensor writes no state, so a sensor registered after a telemetry
\* decode gets nothing for that decode; from its registration on it is written
\* once by each telemetry report decoded, the next one first.
C15_NoReplay == [][C15_Step]_vars

\* two reports decoded, the second sensor registered between them: the first
\* sensor written twice, the second once
C15_Witness ==
    /\ Cardinality(Reports) = 2
    /\ sensors = << 1, 2 >>
    /\ writes = << 1, 1, 2 >>

\* ---- the snapshot a reader sees
\* the bodies of the telemetry reports of one or two records decoded so far, in order
ReportBodies ==
    LET rs == SelectSeq(packets, IsReport) IN [n \in 1..Len(rs) |-> rs[n][2]]

\* WatchdogData() filled from the one report body: line 2 and has_l2 at their
\* defaults when the body has one record
SnapshotOf(body) ==
    [l1 |-> ParseDlData(body, 0),
     l2 |-> IF Len(body) = 2 * DL_DATA_SIZE THEN ParseDlData(body, DL_DATA_SIZE) ELSE LineData,
     has_l2 |-> Len(body) = 2 * DL_DATA_SIZE]

\* the snapshots a reader can see: at each push to the sensors, and between steps
Visible == { seen[n] : n \in 1..Len(seen) } \cup { data }

\* C16, as stated: every snapshot a reader sees is the initial one or is made of
\* the values of one telemetry report.
C16_Wholesale ==
    \A d \in Visible : d = WatchdogData \/ \E n \in 1..Len(ReportBodies) : d = SnapshotOf(ReportBodies[n])

\* line 2 of the n-th snapshot seen when that snapshot has has_l2 false: what the
\* snapshot before it held, the default at first
C16_StaleL2(n) == IF n = 1 THEN LineData ELSE seen[n - 1].l2

\* C16, for line 1 and has_l2 always, and for line 2 while has_l2 is true: in every
\* snapshot a reader sees, in a sensor's callback or between notifications, line 1
\* and has_l2 come from the latest report decoded, and line 2 comes from that same
\* report when has_l2 is true; when has_l2 is false line 2 is what the snapshot
\* held before, the line 2 of the last two-line report or the default.
C16_LatestReport ==
    /\ Len(seen) = Len(ReportBodies)
    /\ \A n \in 1..Len(seen) :
           /\ Reflects(seen[n], ReportBodies[n])
           /\ ~seen[n].has_l2 => seen[n].l2 = C16_StaleL2(n)
    /\ data = IF seen = << >> THEN WatchdogData ELSE seen[Len(seen)]

\* a two-line report, then a one-line report: line 1 of the second next to line 2
\* of the first, has_l2 false
C16_Witness ==
    /\ Len(seen) = 2
    /\ seen[1] = SnapshotOf(RecC \o RecD)
    /\ data.l1 = ParseDlData(RecA, 0)
    /\ data.l2 = LineD
    /\ ~data.has_l2

\* ---- forward progress
\* every call of the loop started on st that returns True leaves the buffer strictly
\* shorter, r being the first call's result.  The recursion follows the loop and
\* stops at the first call that returns False or fails to shorten the buffer, so
\* that it is evaluated in at most Len(st.buf) + 1 calls: where it holds, the loop
\* ends within that many calls.
RECURSIVE Progress(_, _)
ProgressFrom(st) == Progress(st, TryParsePacket(st, sensors))
Progress(st, r) ==
    IF r.consumed
    THEN Len(r.st.buf) < Len(st.buf) /\ ProgressFrom(r.st)
    ELSE Len(r.st.buf) <= Len(st.buf)

C17_Case(b) == Len(b) <= MAX_BUFFER_SIZE => ProgressFrom([Manager EXCEPT !.buf = b])

C17_Step == NotifyStep => C17_Case(Received)

\* C17: in every notification, each call of _try_parse_packet that returns True
\* leaves the buffer strictly shorter than it found it and a call that returns
\* False never lengthens it, so the loop of _notification_handler ends after at
\* most len(buffer) + 1 calls.
C17_ForwardProgress == [][C17_Step]_vars

\* a bad-tail frame and an error report whose body holds the identifier: one
\* packet dispatched and nothing left
C17_Witness ==
    /\ AllDelivered
    /\ pieces = << "Bt", "Er" >>
    /\ packets = << PacketOf("Er") >>
    /\ rx_buffer = << >>

\* ---- malformed input
\* the notifications of one-record reports that are enough to overflow any buffer
RecoveryFrames == MAX_BUFFER_SIZE \div Len(Library.T34a) + 2

\* the notification that took the manager from st to nx dispatched the report T34a
DecodedIn(st, nx) ==
    \E n \in (Len(st.packets) + 1)..Len(nx.packets) : nx.packets[n] = PacketOf("T34a")

\* from st on, valid one-record reports arriving one per notification: one of the
\* first k is decoded
RECURSIVE Recovers(_, _)
RecoversOn(st, nx, k) == DecodedIn(st, nx) \/ Recovers(nx, k - 1)
Recovers(st, k) ==
    k > 0 /\ RecoversOn(st, NotificationHandler(st, Library.T34a, sensors), k)

\* C18: whatever has been received (garbage, stray and cut headers, bad tails,
\* oversized lengths, overflowing chunks, reconnections in between), no read of
\* _notification_handler (buf[6], the length at offset 7, the tail at offset 9 + N,
\* the fields of _parse_dl_data) has gone beyond the bytes present, and valid
\* reports sent from then on are decoded, the first within RecoveryFrames of them.
C18_NoFault == ~raised /\ Recovers(Manager, RecoveryFrames)

\* the buffer is full of a frame that cannot complete: nothing raised, the next
\* report is lost with the buffer and the one after it is decoded
C18_Witness ==
    /\ mark.pos = 0
    /\ pieces = << "Big", "T34a" >>
    /\ pos = Len(Library.Big)
    /\ Len(rx_buffer) = MAX_BUFFER_SIZE
    /\ ~raised
    /\ ~Recovers(Manager, 1)
    /\ Recovers(Manager, 2)

\* ---- the reset command
\* the reset frame opens the run and has been delivered in full
ResetDelivered ==
    /\ pieces # << >>
    /\ pieces[1] = "Rs"
    /\ mark.pos = 0
    /\ pos >= Len(CMD_RESET_ENERGY)

\* CMD_RESET_ENERGY is one full frame: identifier, version 1, a message id, a
\* command, a body length of 0 and the tail, and nothing more
ResetLayout(msgId, cmd) ==
    /\ IdentifierAt(CMD_RESET_ENERGY, 0)
    /\ At(CMD_RESET_ENERGY, 4) = 1
    /\ At(CMD_RESET_ENERGY, 5) = msgId
    /\ At(CMD_RESET_ENERGY, 6) = cmd
    /\ BodyLen(CMD_RESET_ENERGY, 0) = 0
    /\ ValidAt(CMD_RESET_ENERGY, 0)
    /\ Len(CMD_RESET_ENERGY) = FrameLen(CMD_RESET_ENERGY, 0)

\* C19, as stated: the reset frame is a full frame with command id 6 and an empty
\* body, and is dispatched as such.
C19_CommandSix ==
    ResetDelivered
    => /\ \E msgId \in 0..255 : ResetLayout(msgId, 6)
       /\ packets # << >>
       /\ packets[1] = << 6, << >> >>

\* C19, with the command id 3 and the message id 6: the reset frame is a full
\* frame whose message id (offset 5) is 6, whose command (offset 6) is 3 and whose
\* body is empty, and _try_parse_packet dispatches it as command 3 with an empty
\* body.
C19_ResetFrame ==
    ResetDelivered
    => /\ ResetLayout(6, 3)
       /\ packets # << >>
       /\ packets[1] = << 3, << >> >>

\* the reset frame, then a report: both dispatched, the first as command 3
C19_Witness ==
    /\ AllDelivered
    /\ pieces = << "Rs", "T34a" >>
    /\ packets = << << 3, << >> >>, PacketOf("T34a") >>

\* the reset frame keeps the framing rules of the inbound frames
ResetFraming ==
    /\ SubSeq(CMD_RESET_ENERGY, 1, 4) = IdentBytes
    /\ U16BE(CMD_RESET_ENERGY, Len(CMD_RESET_ENERGY) - TAIL_SIZE) = PACKET_TAIL
    /\ U16BE(CMD_RESET_ENERGY, 7) = Len(CMD_RESET_ENERGY) - HEADER_SIZE - TAIL_SIZE
    /\ Len(CMD_RESET_ENERGY) = HEADER_SIZE + U16BE(CMD_RESET_ENERGY, 7) + TAIL_SIZE

\* the run ends with the reset frame behind valid frames only, all delivered
ResetFed ==
    /\ AllDelivered
    /\ pieces # << >>
    /\ LastPiece = "Rs"
    /\ \A n \in 1..Len(pieces) : pieces[n] \in ValidFrames

\* C20: the reset frame starts with PACKET_IDENTIFIER, ends with PACKET_TAIL, its
\* length field is its body length and its length is HEADER_SIZE + dataLen +
\* TAIL_SIZE; fed to the reassembly buffer, alone or behind valid frames, it is
\* extracted as exactly one packet, the buffer ends empty, and the snapshot is the
\* one the frames before it left (the initial one when there are none).
C20_FramingSymmetry ==
    ResetFed
    => /\ ResetFraming
       /\ Len(packets) = Len(pieces)
       /\ packets[Len(packets)] = << At(CMD_RESET_ENERGY, 6), << >> >>
       /\ rx_buffer = << >>
       /\ data = NotificationHandler(Fresh(WatchdogData), Preamble, << >>).data
       /\ Len(pieces) = 1 => data = WatchdogData /\ writes = << >>

\* the reset frame alone, with a sensor registered: one packet, nothing written
C20_Witness ==
    /\ AllDelivered
    /\ pieces = << "Rs" >>
    /\ packets = << PacketOf("Rs") >>
    /\ sensors # << >>
    /\ writes = << >>
    /\ data = WatchdogData
    /\ rx_buffer = << >>

\* ---- reconnection
\* the bytes received on the current connection
SinceConnect == Slice(Stream, mark.pos, pos)

\* s is what remains of b when some of its leading bytes are removed
IsSuffix(s, b) == Len(s) <= Len(b) /\ s = DelFront(b, Len(b) - Len(s))

\* the packet occurs as a frame with the right tail somewhere in b
FramedIn(pkt, b) ==
    \E j \in 0..(Len(b) - HEADER_SIZE - TAIL_SIZE) : ValidAt(b, j) /\ PacketAt(b, j) = pkt

\* C21: in every state, the reassembly buffer holds trailing bytes of what was
\* received on the current connection and nothing else (it is empty when the
\* connection has delivered nothing yet), and every packet extracted since the
\* connection was established is a frame lying wholly within the bytes of this
\* connection: nothing left over from an earlier connection is combined with them.
C21_ReconnectClears ==
    /\ IsSuffix(rx_buffer, SinceConnect)
    /\ \A n \in (mark.packets + 1)..Len(packets) : FramedIn(packets[n], SinceConnect)

\* a report is cut off by a disconnection part-way through, and the two-line
\* report sent on the new connection is decoded from its own bytes
C21_Witness ==
    /\ pieces = << "T34a", "T68" >>
    /\ mark.pos = Len(Library.T34a)
    /\ mark.packets = 0
    /\ pos = StreamLen(pieces)
    /\ packets = << PacketOf("T68") >>
    /\ rx_buffer = << >>

\* ---- two managers
\* the writes made to the entities of manager k
WritesOf(k) == SelectSeq(peers.writes, LAMBDA e : e \div 10 = k)

\* C22: with two managers fed and registered to in any interleaving, each
\* manager's buffer, snapshot and entity list, and the writes made to its
\* entities, are in every state what they would be if that manager were the only
\* one; so the chunks fed to one and the entities registered with it leave the
\* other's buffer, snapshot and entities as they were and write to none of them.
C22_SessionIsolation ==
    \A k \in Managers :
        /\ PeerManager(k).buf = peers.alone[k].buf
        /\ PeerManager(k).data = peers.alone[k].data
        /\ PeerSensors(k) = peers.alone[k].sensors
        /\ WritesOf(k) = peers.alone[k].writes

\* manager 1 has decoded a two-line report and written to its entity, while
\* manager 2, with an entity of its own, holds the first part of a report
C22_Witness ==
    /\ PeerManager(1).data.has_l2
    /\ PeerManager(1).buf = << >>
    /\ PeerManager(2).buf = Slice(Library.T34a, 0, 20)
    /\ PeerManager(2).data = WatchdogData
    /\ PeerSensors(1) = << 11 >>
    /\ PeerSensors(2) = << 21 >>
    /\ peers.writes = << 11 >>

\* ---- _parse_dl_data on a record of arbitrary bytes
\* the four bytes of the record at offset o as an unsigned number, less 2^32 when
\* it is 2^31 or more: the top bit taken off, and 2^31 subtracted when it was set
SignedAt(o) ==
    LET low == (At(record, o) % 128) * 16777216 + At(record, o + 1) * 65536
               + At(record, o + 2) * 256 + At(record, o + 3)
    IN  IF At(record, o) >= 128 THEN (low - 2147483647) - 1 ELSE low

\* a record of arbitrary bytes has been decoded
RawDecoded == physical = None /\ record # << >> /\ decoded # LineData

\* C23: for every 34-byte record of arbitrary bytes, _parse_dl_data returns (it
\* does not raise), and the voltage, current, power, energy, output voltage and
\* frequency it returns are the signed big-endian 32-bit integers at offsets 0,
\* 4, 8, 12, 20 and 28, scaled and rounded, raw values of 2^31 and more being
\* negative; boost is true exactly when the byte at offset 26 is 1; error_code
\* and status are the bytes at offsets 32 and 33 whatever their value.
C23_DecodeTotal ==
    RawDecoded
    => /\ Len(record) = DL_DATA_SIZE
       /\ decoded # [raised |-> TRUE]
       /\ decoded.voltage = Some(RoundDiv(SignedAt(0), 1000))
       /\ decoded.current = Some(RoundDiv(SignedAt(4), 100))
       /\ decoded.power = Some(RoundDiv(SignedAt(8), 1000))
       /\ decoded.energy = Some(RoundDiv(SignedAt(12), 100))
       /\ decoded.output_voltage = Some(RoundDiv(SignedAt(20), 1000))
       /\ decoded.frequency = Some(RoundDiv(SignedAt(28), 10))
       /\ decoded.boost = Some(At(record, 26) = 1)
       /\ decoded.error_code = Some(At(record, 32))
       /\ decoded.status = Some(At(record, 33))
       /\ \A o \in { 0, 4, 8, 12, 20, 28 } : At(record, o) >= 128 <=> SignedAt(o) < 0

\* a record whose current has the top bit set and whose power is the greatest
\* int32, with 255 as boost flag, error code and status: a negative current, a
\* positive power, boost off, and 255 for both codes
C23_Witness ==
    /\ RawDecoded
    /\ SubSeq(record, 5, 8) = << 128, 0, 0, 0 >>
    /\ SubSeq(record, 9, 12) = << 127, 255, 255, 255 >>
    /\ At(record, 26) = 255
    /\ decoded.current = Some(-21474836)
    /\ decoded.power = Some(2147484)
    /\ decoded.boost = Some(FALSE)
    /\ decoded.error_code = Some(255)
    /\ decoded.status = Some(255)

\* ---- build_dl_data and _parse_dl_data, one after the other
\* readings have been encoded and the record decoded
RoundTripped == physical # None /\ record # << >> /\ decoded # LineData

\* the field decoded as got steps of 1 / (scale / unit) reproduces the reading X
\* of the scale: the same value when X is a whole number of steps, and less than
\* one step away from it in every case
Reproduces(got, X, unit) ==
    /\ got # None
    /\ X % unit = 0 => got[1] * unit = X
    /\ got[1] * unit - X < unit
    /\ X - got[1] * unit < unit

\* C24: a reading encoded at the protocol scale (x 10 000, x 100 for the
\* frequency) by build_dl_data, int() truncation included, and decoded by
\* _parse_dl_data comes back as the same value when it has no more than the
\* decimals the field is rounded to (1 for voltage, power, output voltage and
\* frequency, 2 for current and energy), and as a value less than one unit of
\* the last such decimal away from it otherwise.
C24_ScalingRoundTrip ==
    RoundTripped
    => /\ decoded # [raised |-> TRUE]
       /\ Reproduces(decoded.voltage, physical.voltage, 1000)
       /\ Reproduces(decoded.current, physical.current, 100)
       /\ Reproduces(decoded.power, physical.power, 1000)
       /\ Reproduces(decoded.energy, physical.energy, 100)
       /\ Reproduces(decoded.output_voltage, physical.output_voltage, 1000)
       /\ Reproduces(decoded.frequency, physical.frequency, 10)

\* the default readings: 2.03 A is encoded as 20299 and decoded as 2.03 A
C24_Witness ==
    /\ RoundTripped
    /\ physical = Reading(1215000, 20300, 2030000, 26450500, 1220000, 6000)
    /\ record = RecA
    /\ I32BE(record, 4) = 20299
    /\ decoded.current = Some(203)
    /\ decoded.voltage = Some(1215)
    /\ decoded.energy = Some(264505)

\* ---- the reset button
\* the writes of the reset payload among the writes made on the client so far
ResetWrites == SelectSeq(gatt, LAMBDA w : w.payload = CMD_RESET_ENERGY)

\* the presses made while a connected client was held
ConnectedPresses == SelectSeq(pressed, LAMBDA p : p.client = Some(TRUE))

\* C25: every press made while the manager holds a client that is connected
\* makes one write, of the reset payload, to the characteristic, with response;
\* every press made with no client or with a disconnected client makes no write;
\* no press raises; so the reset payload has been written as many times as the
\* button was pressed with a connected client.
C25_ResetButtonGuard ==
    /\ \A n \in 1..Len(pressed) :
           /\ ~pressed[n].raised
           /\ pressed[n].wrote =
                  IF pressed[n].client = Some(TRUE)
                  THEN << [char |-> CHARACTERISTIC_UUID, payload |-> CMD_RESET_ENERGY,
                           response |-> TRUE] >>
                  ELSE << >>
    /\ Len(ResetWrites) = Len(ConnectedPresses)

\* the button pressed with no client, then while connected, then after the link
\* dropped: the handshake and one reset write are all that was written
C25_Witness ==
    /\ Len(pressed) = 3
    /\ pressed[1].client = None
    /\ pressed[2].client = Some(TRUE)
    /\ pressed[3].client = Some(FALSE)
    /\ gatt = << GattWrite(HANDSHAKE_PAYLOAD), GattWrite(CMD_RESET_ENERGY) >>

\* ---- sensors
\* the body of the last telemetry report of one or two records decoded
LastReport == packets[Largest(Reports)][2]

\* C26: in every state, whatever notifications and reconnections came before,
\* the L1 sensor of a field is available exactly when that field of line 1 is
\* set, which is exactly when a telemetry report has been decoded; the L2 sensor
\* of a field is available exactly when has_l2 is true and that field of line 2
\* is set, which is exactly when the last report decoded had two records: not
\* before any report, not after a one-record report, and again after a
\* two-record report.
C26_LineAvailability ==
    \A f \in SensorFields :
        /\ LineAvailable(data, "l1", f) <=> data.l1[f] # None
        /\ LineAvailable(data, "l1", f) <=> Reports # { }
        /\ LineAvailable(data, "l2", f) <=> (data.has_l2 /\ data.l2[f] # None)
        /\ LineAvailable(data, "l2", f)
               <=> (Reports # { } /\ Len(LastReport) = 2 * DL_DATA_SIZE)

\* a two-line report and then a one-line report: line 2 still holds the values
\* of the first, and its sensors are unavailable
C26_Witness ==
    /\ pieces = << "T68", "T34a" >>
    /\ AllDelivered
    /\ data.l2 = LineD
    /\ ~data.has_l2
    /\ \A f \in SensorFields : LineAvailable(data, "l1", f) /\ ~LineAvailable(data, "l2", f)

\* the total of field f a telemetry body of one or two records stands for: line 1
\* alone, or line 1 plus line 2, in rounding steps of the field
TotalOf(body, f) ==
    LET l1 == ParseDlData(body, 0)[f][1]
    IN  IF Len(body) = DL_DATA_SIZE THEN Some(l1)
        ELSE Some(l1 + ParseDlData(body, DL_DATA_SIZE)[f][1])

\* C27: in every state the total sensor of power and of energy returns None
\* while no telemetry report has been decoded; after that it returns the line 1
\* value when has_l2 is false and the sum of line 1 and line 2 when has_l2 is
\* true, which is the total of the last report decoded; and at each push to the
\* sensors it returned the total of the report just decoded.
C27_TotalSensor ==
    \A f \in TotalFields :
        /\ Reports = { } => TotalValues(data, f) = { None } /\ ~TotalAvailable(data, f)
        /\ Reports # { }
               => /\ TotalValues(data, f) =
                         { IF data.has_l2 THEN Some(data.l1[f][1] + data.l2[f][1])
                           ELSE data.l1[f] }
                  /\ TotalValues(data, f) = { TotalOf(LastReport, f) }
        /\ \A n \in 1..Len(seen) : TotalValues(seen[n], f) = { TotalOf(ReportBodies[n], f) }

\* a one-line report and then a two-line report: the total followed from 203.0 W
\* to -500.0 W + 7.0 W
C27_Witness ==
    /\ pieces = << "T34a", "T68" >>
    /\ AllDelivered
    /\ Len(seen) = 2
    /\ TotalValues(seen[1], "power") = { Some(2030) }
    /\ TotalValues(data, "power") = { Some(-4930) }
    /\ TotalValues(data, "energy") = { Some(2150025) }

\* ---- discovery
\* the name is not empty and begins with W, D, _ or with P, M, in upper case
NameQualifies(n) ==
    /\ Len(n) > 0
    /\ \/ Len(n) >= 3 /\ n[1] = "W" /\ n[2] = "D" /\ n[3] = "_"
       \/ Len(n) >= 2 /\ n[1] = "P" /\ n[2] = "M"

\* the i-th advertisement qualifies: its name does, its address is not
\* configured, and no qualifying advertisement before it has the same address
Qualifies(i) ==
    /\ NameQualifies(flow.infos[i].name)
    /\ flow.infos[i].address \notin flow.current
    /\ ~\E j \in 1..(i - 1) :
           /\ flow.infos[j].address = flow.infos[i].address
           /\ NameQualifies(flow.infos[j].name)

\* the option for the i-th advertisement
OptionOf(i) ==
    [value |-> flow.infos[i].address,
     label |-> << flow.infos[i].name, flow.infos[i].address >>]

\* the advertisements that qualify, by their place in the list, in order
Qualifying == SelectSeq([i \in 1..Len(flow.infos) |-> i], Qualifies)

\* C28: once the user step has run, the options offered are those of the
\* advertisements that qualify, one for each, in the order discovered: an
\* advertisement is offered exactly when its name is not empty and starts with
\* "WD_" or "PM" in that case, and its address is not configured already and
\* not listed already by an earlier advertisement; and the flow aborts with
\* no_devices_found exactly when no advertisement qualifies, showing the form
\* otherwise.
C28_DiscoveryMatching ==
    flow.result.type # "none"
    => /\ flow.result.options = [k \in 1..Len(Qualifying) |-> OptionOf(Qualifying[k])]
       /\ (flow.result.type = "abort" /\ flow.result.reason = "no_devices_found")
              <=> ~\E i \in 1..Len(flow.infos) : Qualifies(i)
       /\ flow.result.type = "form" <=> \E i \in 1..Len(flow.infos) : Qualifies(i)

\* a lower-case name at one address, then a Gen 1 name at the same address, with
\* the other address configured: the second advertisement alone is offered
C28_Witness ==
    /\ flow.infos = << [address |-> "AA:01", name |-> << "w", "d", "_", "E", "7" >>],
                       [address |-> "AA:01", name |-> << "P", "M", "S", "1" >>] >>
    /\ flow.current = { "AA:02" }
    /\ flow.result.type = "form"
    /\ flow.result.options =
           << [value |-> "AA:01", label |-> << << "P", "M", "S", "1" >>, "AA:01" >>] >>

\* ---- the value _try_parse_packet returns
\* the buffers _try_parse_packet is first called on in the next notification: the
\* buffer with each chunk that can come next appended
NextBuffers == { rx_buffer \o Slice(Stream, pos, c) : c \in { n \in CutPoints(pieces) : n > pos } }

\* the first call of the step removed bytes from the buffer it was called on
C29_Removed(b, r) == r.st.buf # b

\* the call on b returns True when it removed bytes, and leaves b as it was when
\* it returns False
C29_Case(b) ==
    ~Overflow(b)
    => \E r \in { FirstCall(b) } :
           /\ C29_Removed(b, r) => r.consumed
           /\ ~r.consumed => r.st.buf = b

LeadingGarbage(b) ==
    IF HasIdentifier(b) THEN FirstIdentifier(b)
    ELSE IF Len(b) > 3 THEN Len(b) - 3 ELSE 0

\* the call on b returns True when it removed more than the leading garbage; when
\* it returns False it has removed the leading garbage and nothing else, what is
\* left needs more data (no identifier in it yet, or an incomplete frame), and the
\* snapshot is untouched
C29_AmendedCase(b) ==
    ~Overflow(b)
    => \E r \in { FirstCall(b) }, rest \in { DelFront(b, LeadingGarbage(b)) } :
           /\ r.st.buf # rest => r.consumed
           /\ ~r.consumed => /\ r.st.buf = rest
                             /\ Len(rest) < 4 \/ Waiting(rest)
                             /\ Untouched(r.st)

LastThree(b) == IF Len(b) > 3 THEN DelFront(b, Len(b) - 3) ELSE b

\* the scan and the call on a buffer b that does not start with the identifier
C30_Case(b) ==
    (~Overflow(b) /\ ~(Len(b) >= 4 /\ IdentifierAt(b, 0)))
    => \E r \in { FirstCall(b) } :
           IF HasIdentifier(b)
           THEN \E kept \in { DelFront(b, FirstIdentifier(b)) } :
                    /\ ScanIdentifier(b) = kept
                    /\ r = FirstCall(kept)
                    /\ IsSuffix(r.st.buf, kept)
           ELSE /\ ScanIdentifier(b) = LastThree(b)
                /\ ~r.consumed
                /\ r.st.buf = LastThree(b)
                /\ Untouched(r.st)

\* each step of the scan removes one byte, at most (looked at on the buffers of
\* up to two headers' length)
C30_OneAtATime(b) == \A i \in 0..Len(b) : ScanStep(b, i) \in { i, i + 1 }

C31_FixedPoint ==
    /\ Len(rx_buffer) < 4 \/ Waiting(rx_buffer)
    /\ ~CompleteAt(rx_buffer, 0)
    /\ Len(rx_buffer) >= 4 => FirstIdentifier(rx_buffer) = 0

\* a frame has been decoded and the header of the next one is left, its body to come
C31_Witness ==
    /\ packets # << >>
    /\ Waiting(rx_buffer)
    /\ Len(rx_buffer) >= HEADER_SIZE
    /\ pos \notin Boundaries(pieces)

\* ---- one chunk or many
\* everything delivered since the buffer was last cleared by a connection, handed
\* as a single chunk to a manager with the entities ss registered
OneChunk(ss) ==
    NotificationHandler(Fresh(mark.data), Slice(Stream, mark.pos, pos), ss)

\* every entity was registered before the first telemetry report was decoded:
\* each push has written all of them
RegisteredFirst == Len(writes) = Len(seen) * Len(sensors)

\* C32: for a byte sequence of at most MAX_BUFFER_SIZE bytes fed from an empty
\* buffer, every chunking ends in the state of the single-chunk feed: the bytes left
\* in the buffer, the snapshot, and the observer notifications (each round of
\* them with the snapshot it showed, and, for the same observers registered
\* beforehand, every call in the same order).
C32_ChunkingIndependent ==
    (mark.pos = 0 /\ pos <= MAX_BUFFER_SIZE) =>
        \E o \in { OneChunk(sensors) } :
            /\ rx_buffer = o.buf
            /\ data = o.data
            /\ seen = o.seen
            /\ RegisteredFirst => writes = o.writes

\* two entities have been notified of a report, and the identifier of the next frame
\* is cut by the end of the chunk: its first bytes are in the buffer
C32_Witness ==
    /\ mark.pos = 0
    /\ pos <= MAX_BUFFER_SIZE
    /\ Len(sensors) = 2
    /\ seen # << >>
    /\ RegisteredFirst
    /\ Len(rx_buffer) \in 1..3
    /\ rx_buffer = SubSeq(IdentBytes, 1, Len(rx_buffer))

\* ---- frames the length check accepts
\* the device sends one frame, its tail right and its dataLen accepted
OneFrame ==
    /\ Len(pieces) = 1
    /\ ValidAt(Stream, 0)
    /\ FrameLen(Stream, 0) = Len(Stream)

\* the frame is decoded at its last byte and not before; until then all its bytes
\* so far are kept
DeliveredAtLastByte ==
    IF pos = Len(Stream)
    THEN packets = << PacketAt(Stream, 0) >> /\ rx_buffer = << >>
    ELSE packets = << >> /\ rx_buffer = Slice(Stream, 0, pos)

\* the frame the buffer is waiting for can still arrive in full
CanComplete == (Waiting(rx_buffer) /\ Len(rx_buffer) >= HEADER_SIZE)
                   => FrameLen(rx_buffer, 0) <= MAX_BUFFER_SIZE

\* C33, as stated: a frame with the right identifier and tail whose dataLen N is
\* accepted (N <= MAX_BUFFER_SIZE), fed in any chunking into an empty buffer, is
\* extracted and dispatched once its last byte is appended; the parser never waits
\* for a frame that it can never complete.
C33_EveryAccepted == OneFrame => (DeliveredAtLastByte /\ CanComplete)

\* C33, for frames that fit the buffer: a frame with the right identifier and tail
\* whose length 9 + N + 2 is at most MAX_BUFFER_SIZE, fed in any chunking into an
\* empty buffer, is extracted and dispatched once its last byte is appended, and
\* the parser never waits for such a frame in vain.  A longer frame whose dataLen
\* is still accepted (N <= MAX_BUFFER_SIZE) is waited for and never decoded: the
\* overflow guard empties the buffer when the byte after the MAX_BUFFER_SIZE-th
\* arrives.
C33_DeliverableWithinBuffer ==
    OneFrame =>
        IF Len(Stream) <= MAX_BUFFER_SIZE
        THEN DeliveredAtLastByte /\ CanComplete
        ELSE /\ packets = << >>
             /\ pos <= MAX_BUFFER_SIZE => rx_buffer = Slice(Stream, 0, pos)
             /\ pos = Len(Stream) => Len(rx_buffer) < Len(Stream) - MAX_BUFFER_SIZE

\* the longest frame the buffer can hold has arrived in more than one notification
\* and is decoded
C33_Witness ==
    /\ pieces = << "Fit" >>
    /\ pos = MAX_BUFFER_SIZE
    /\ packets = << PacketOf("Fit") >>
    /\ rx_buffer = << >>

\* ---- framing by length
\* the call on b, which begins with a valid frame, extracts that frame alone: its
\* packet is the one packet added, with the dataLen bytes behind the header as its
\* body, and the bytes behind the frame are all that is left
C34_Case(b) ==
    (~Overflow(b) /\ ValidAt(b, 0))
    => \E r \in { FirstCall(b) } :
           /\ r.consumed
           /\ r.st.packets = Append(packets, PacketAt(b, 0))
           /\ Len(PacketAt(b, 0)[2]) = BodyLen(b, 0)
           /\ r.st.buf = DelFront(b, FrameLen(b, 0))

\* the body of a frame holds the identifier constant or the tail constant
ConstantsInBody(b) ==
    \E j \in HEADER_SIZE..(HEADER_SIZE + BodyLen(b, 0) - TAIL_SIZE) :
        \/ U16BE(b, j) = PACKET_TAIL
        \/ j + 4 <= HEADER_SIZE + BodyLen(b, 0) /\ IdentifierAt(b, j)

\* C34: when the buffer begins with a valid frame, the body extracted is the N
\* bytes behind the header whatever they hold: the identifier constant or the tail
\* constant inside the body neither split the frame nor start a resynchronization,
\* and the bytes behind the frame are left as they are.
C34_LengthDrivenFraming == \A b \in NextBuffers : C34_Case(b)

\* the error report whose body holds both constants has been extracted whole, and
\* the first bytes of the frame behind it are in the buffer
C34_Witness ==
    /\ pieces # << >>
    /\ pieces[1] = "Er"
    /\ ConstantsInBody(Library.Er)
    /\ packets = << PacketOf("Er") >>
    /\ pos > Len(Library.Er)
    /\ rx_buffer = Slice(Stream, Len(Library.Er), pos)

\* ---- what an observer finds
\* b begins with a telemetry report of one or two records
ReportAt(b) == ValidAt(b, 0) /\ IsReport(PacketAt(b, 0))

\* the call on b, which begins with a telemetry report, notifies the observers once,
\* of a snapshot that holds every value of the report and is the one the call
\* returns with, and with the buffer already cut down to the bytes behind the frame
C35_Case(b) ==
    (~Overflow(b) /\ ReportAt(b))
    => \E r \in { FirstCall(b) } :
           /\ Len(r.st.seen) = Len(seen) + 1
           /\ Reflects(r.st.seen[Len(r.st.seen)], PacketAt(b, 0)[2])
           /\ r.st.data = r.st.seen[Len(r.st.seen)]
           /\ r.st.left = << DelFront(b, FrameLen(b, 0)) >>
           /\ r.st.writes = writes \o sensors

\* over the whole notification: each time the observers are notified, the buffer
\* they find is a part of the end of what was received, shorter by a frame at
\* least, and holds what the notification leaves in the buffer at its end
C35_Loop(b) ==
    ~Overflow(b)
    => \E st \in { WholeLoop(b) } :
           /\ Len(st.left) = Len(st.seen) - Len(seen)
           /\ \A n \in 1..Len(st.left) :
                  /\ Len(st.left[n]) <= Len(b) - HEADER_SIZE - DL_DATA_SIZE - TAIL_SIZE
                  /\ IsSuffix(st.left[n], b)
                  /\ IsSuffix(st.buf, st.left[n])

\* C35: when the observers are notified for a telemetry frame, the frame's bytes
\* are already removed from the buffer and the snapshot already holds all values
\* of that frame (l1, and for two records l2 and has_l2): no observer runs between
\* the assignment of l1 and that of l2 and has_l2.
C35_ConsumeUpdateNotify == \A b \in NextBuffers : C35_Case(b) /\ C35_Loop(b)

\* the observers have been notified of a two-line report that arrived together with
\* the first bytes of the next frame
C35_Witness ==
    /\ sensors # << >>
    /\ Len(seen) >= 1
    /\ seen[Len(seen)].has_l2
    /\ Len(writes) >= Len(sensors)
    /\ rx_buffer # << >>
    /\ pos \notin Boundaries(pieces)
    /\ pos - Len(rx_buffer) \in Boundaries(pieces)

\* ---- the bytes the decoder passes over
\* the offsets in a record that _parse_dl_data does not read: the reserved word,
\* backlight, neutralDetection and temperature
IgnoredOffsets == { 16, 17, 18, 19, 24, 25, 27 }

\* the record with the byte at each ignored offset replaced by what p gives for it
Overwritten(rec, p) ==
    [i \in 1..Len(rec) |-> IF (i - 1) \in IgnoredOffsets THEN p[i - 1] ELSE rec[i]]

\* the record with its byte at offset o replaced by v
WithByte(rec, o, v) == [rec EXCEPT ![o + 1] = v]

\* records put before or behind the one decoded, in a body of two
OtherRecords == { RecA, RecC, RecD, Zeros(DL_DATA_SIZE), RawRecord(3, 1, 9, 7) }

\* the snapshot after _parse_dl_report on the body
ReportOf(body) == ParseDlReport(Fresh(WatchdogData), body, << >>).data

\* C36: the LineData decoded does not depend on the ignored bytes of the record
\* (reserved 16..19, backlight 24, neutralDetection 25, temperature 27): records
\* that differ only there decode to the same LineData; and of a 68-byte body line 1
\* depends on bytes 0..33 only and line 2 on bytes 34..67 only.
C36_DecoderNonInterference ==
    (record # << >> /\ decoded # LineData)
    => /\ \A p \in [IgnoredOffsets -> { 1, 255 }] :
              ParseDlData(Overwritten(record, p), 0) = decoded
       /\ \A o \in IgnoredOffsets, v \in { 0, 1, 36, 128, 255 } :
              ParseDlData(WithByte(record, o, v), 0) = decoded
       /\ \A other \in OtherRecords :
              /\ ReportOf(record \o other).l1 = decoded
              /\ ReportOf(other \o record).l2 = decoded
              /\ ReportOf(other \o record).l1 = ParseDlData(other, 0)
              /\ ReportOf(record \o other).l2 = ParseDlData(other, 0)

\* a record is decoded whose reserved word, backlight and temperature bytes are
\* not zero, with the boost flag at offset 26 set
C36_Witness ==
    /\ RawDecoded
    /\ At(record, 16) >= 128
    /\ At(record, 24) = 255
    /\ At(record, 27) = 255
    /\ decoded.boost = Some(TRUE)

\* ---- from two lines to one
\* the n-th telemetry report decoded has one record and the one before it had two
DualToSingle(n) ==
    /\ n >= 2
    /\ Len(ReportBodies[n - 1]) = 2 * DL_DATA_SIZE
    /\ Len(ReportBodies[n]) = DL_DATA_SIZE

\* the snapshot d after that n-th report: line 1 of the new report, has_l2 false,
\* and line 2 still that of the report before
C37_Stored(d, n) ==
    /\ d.l1 = ParseDlData(ReportBodies[n], 0)
    /\ d.has_l2 = FALSE
    /\ d.l2 = ParseDlData(ReportBodies[n - 1], DL_DATA_SIZE)
    /\ d.l2 # LineData

\* what the entities show of d: no L2 sensor is available, and each total is the
\* line 1 value alone
C37_Shown(d) ==
    /\ \A f \in SensorFields : ~LineAvailable(d, "l2", f) /\ LineAvailable(d, "l1", f)
    /\ \A f \in TotalFields : TotalValues(d, f) = { d.l1[f] } /\ TotalAvailable(d, f)

\* C37: when a one-record (34-byte) report is decoded after a two-record
\* (68-byte) report, line 1 is replaced and has_l2 becomes false while the stored
\* line 2 keeps the values of the earlier report; these are not shown: the L2
\* sensors are unavailable and the total sensors equal the L1 value alone, at the
\* push for that report and for as long as it is the last one decoded.
C37_DualToSingle ==
    /\ Len(seen) = Len(ReportBodies)
    /\ \A n \in 1..Len(seen) :
           DualToSingle(n) => C37_Stored(seen[n], n) /\ C37_Shown(seen[n])
    /\ (seen # << >> /\ DualToSingle(Len(seen)))
           => C37_Stored(data, Len(seen)) /\ C37_Shown(data)

\* a two-line report and then a one-line report are decoded: the snapshot holds
\* 7.0 W on line 2 and the total power shown is the 203.0 W of line 1
C37_Witness ==
    /\ Len(seen) = 2
    /\ DualToSingle(2)
    /\ seen[1].has_l2
    /\ data.l2.power = Some(70)
    /\ data.l1.power = Some(2030)
    /\ TotalValues(data, "power") = { Some(2030) }

\* ---- the steps of a connection
\* s is the beginning of t
IsPrefix(s, t) == Len(s) <= Len(t) /\ s = SubSeq(t, 1, Len(s))

\* the write_gatt_char calls made since the current turn of the loop began
WrittenThisTurn == SubSeq(gatt, Task.base + 1, Len(gatt))

\* C38: in every turn of connect_loop the steps are carried out in the order
\* connect, clear the buffer, subscribe to notifications, send the handshake: the
\* handshake is written once start_notify has returned and never before, and when
\* a step raises the later ones are not carried out in that turn.
C38_StepOrdering ==
    /\ IsPrefix(Task.steps, ConnectionSteps)
    /\ WrittenThisTurn = IF Len(Task.steps) >= 3 THEN << GattWrite(HANDSHAKE_PAYLOAD) >>
                         ELSE << >>
    /\ Task.pc = "establish_connection" => Task.steps = << >>
    /\ Task.pc = "start_notify" => Task.steps = SubSeq(ConnectionSteps, 1, 2)
    /\ Task.pc = "write_gatt_char" => Task.steps = SubSeq(ConnectionSteps, 1, 3)
    /\ Task.pc = "keepalive" => Task.steps = ConnectionSteps
    /\ (Task.pc = "sleep" /\ Task.cause = "not_found") => Task.steps = << >>
    /\ (Task.pc = "sleep" /\ Task.cause \in Exceptions) => Len(Task.steps) < 4
    /\ Task.steps # << >> => client # None

\* an earlier turn ended before the handshake, and the current turn has carried
\* out all four steps: the one handshake written so far was written in it
C38_Witness ==
    /\ Task.pc = "keepalive"
    /\ Task.tries >= 2
    /\ Task.steps = ConnectionSteps
    /\ Len(gatt) = 1
    /\ gatt[1] = GattWrite(HANDSHAKE_PAYLOAD)
    /\ client = Some(TRUE)

\* ---- unload
\* the manager holds a client whose connection is open
ConnectionOpen == client # None /\ client[1]

\* C40: when async_unload_entry has unloaded the platforms, the entry's data is
\* removed, the connect-loop task has been cancelled and has ended, and no BLE
\* connection of the manager is left open; when the platform unload failed, the
\* entry's data is still stored and the task still runs.
C40_UnloadReleases ==
    /\ entry.unload = "ok"
           => /\ ~entry.stored
              /\ Task.pc = "cancelled"
              /\ ~ConnectionOpen
    /\ entry.unload = "failed"
           => /\ entry.stored
              /\ Task.pc # "cancelled"


\* the task waits to go round again: it sleeps in an except clause or after the
\* device was not found, or its keep-alive loop finds the connection gone
Failed ==
    \/ Task.pc = "sleep"
    \/ Task.pc = "keepalive" /\ ~ConnectionOpen

\* the seconds connect_loop waits, by what it waits for
WaitsAsWritten ==
    /\ Task.pc = "sleep" /\ Task.cause \in { "not_found", "BleakError", "TimeoutError" }
           => Task.wait = 10
    /\ Task.pc = "sleep" /\ Task.cause \notin { "not_found", "BleakError", "TimeoutError" }
           => Task.cause = "Exception" /\ Task.wait = 30
    /\ Task.pc = "keepalive" => Task.wait = 5

\* the task has ended, and only because async_unload_entry cancelled it
EndedByCancellationOnly ==
    Task.pc \in { "done", "cancelled" } => Task.pc = "cancelled" /\ entry.unload = "ok"

\* C39: connect_loop never ends on its own, only cancellation ends it; when the
\* device is not found or a BLE or timeout error is caught it sleeps 10 s, after
\* any other exception 30 s, and its keep-alive loop polls every 5 s; and from each
\* of these, and from a dropped connection, the loop always begins another turn
\* unless the task is cancelled first (turns counted up to MaxAttempts).
C39_PersistentRetry ==
    /\ [](WaitsAsWritten /\ EndedByCancellationOnly)
    /\ \A n \in 1..(MaxAttempts - 1) :
           (Failed /\ Task.tries = n) ~> (Task.tries > n \/ Task.pc = "cancelled")

\* the loop in its second turn, asleep for 30 s after an exception that is neither
\* a BleakError nor a timeout
C39_Witness ==
    /\ Task.tries = 2
    /\ Task.pc = "sleep"
    /\ Task.cause = "Exception"
    /\ Task.wait = 30

====
